---- MODULE Spec2Model ----
(***************************************************************************)
(* Model of the IPU provisioning controller of cluster-deployment-         *)
(* automation (src/ipu.py): IPUClusterNode (start, _boot_iso,              *)
(* _redfish_boot_ipu, _wait_for_acc_with_retry, post_boot) and IPUBMC      *)
(* (boot_iso_with_redfish, version, is_ipu, ensure_firmware).              *)
(*                                                                         *)
(* One top-level call runs per behaviour.  pc is the position in the       *)
(* code, stack holds the positions to return to, outcome is how the call   *)
(* ended: "returned", "exit" (logger.error_and_exit) or "raised" (an       *)
(* exception that no frame catches).  events is the ordered log of the     *)
(* externally visible steps (Redfish requests, console commands).          *)
(*                                                                         *)
(* Strings the code inspects (firmware versions, banners) are tuples of    *)
(* one-character strings, so that matching and containment are computed.   *)
(***************************************************************************)
EXTENDS Integers, Sequences, FiniteSets, TLC

VARIABLES
    pc,            \* position in the code
    stack,         \* return positions of the calls in progress
    outcome,       \* "none" while running, then "returned" / "exit" / "raised"
    error,         \* which error ended the call ("" if none)
    op,            \* the top-level call: "start", "post_boot", "version", "is_ipu", "ensure_firmware"
    iso,           \* start(iso_or_image_path): the ISO source
    iso_path,      \* boot_iso_with_redfish(iso_path): the URL handed to the BMC
    host_bmc,      \* IPUBMC._host_bmc is not None
    force,         \* ensure_firmware(force, version)
    target,        \* ensure_firmware(force, version): the configured target version
    events,        \* ordered log of requests and console commands issued
    timeout,       \* _wait_for_acc_with_retry: the countdown
    failures,      \* _wait_for_acc_with_retry: the escalation counter
    polls,         \* failed pings since the monitor started or last escalated
    budget,        \* the timeout argument the monitor was started with
    headResp,      \* Some(what requests.head(iso_path) produced), None before the request
    expected_size, \* boot_iso_with_redfish: result of url_get_size
    urlMatched,    \* the marker file held iso_path when the media check was made
    sizeMatched,   \* acc-os.iso had the expected size when the media check was made
    now,           \* time.monotonic() relative to the start of _wait_iso_downloaded
    slow,          \* requests of the wait so far that took five seconds of that clock
    loop_count,    \* _wait_iso_downloaded: loop_count
    urlMarker,     \* console file /work/url: None (no file) or Some(contents)
    isoFile,       \* console file /mnt/imc/acc-os.iso: None (no file) or Some(size in bytes)
    vmInserted,    \* BMC VirtualMedia/1 "Inserted"
    vmImageName,   \* BMC VirtualMedia/1 "ImageName"
    transfer,      \* the BMC accepted an InsertMedia request and is fetching the image
    bootOverride,  \* BMC Systems/1 Boot.BootSourceOverrideEnabled
    httpServer,    \* common.HttpServerManager: "off" / "on"
    reach,         \* last result of _redfish_available
    fwResp,        \* last Managers/1 "FirmwareVersion" / root "Name" value received
    banner,        \* last console banner read (/etc/issue or /etc/issue.net)
    ver,           \* last value returned by version() / _version_via_ssh()
    isIpu,         \* last value returned by is_ipu()
    sess,          \* two boot calls running against one BMC: each one's position and locals
    ai             \* a call of AssistedClientAutomation: its position, locals and the service it talks to

inputVars   == <<op, iso, iso_path, host_bmc, force, target>>
monitorVars == <<timeout, failures, polls, budget>>
mediaVars   == <<headResp, expected_size, urlMatched, sizeMatched, now, slow,
                 loop_count>>
consoleVars == <<urlMarker, isoFile>>
bmcVars     == <<vmInserted, vmImageName, transfer, bootOverride>>
probeVars   == <<reach, fwResp, banner, ver, isIpu>>
otherVars   == <<sess, ai>>
vars == <<pc, stack, outcome, error, inputVars, events, monitorVars, mediaVars,
          consoleVars, bmcVars, httpServer, probeVars, sess, ai>>

-----------------------------------------------------------------------------
(* Values                                                                  *)

\* Optional[T]: None is the empty tuple, a value x is the one-element tuple.
None == <<>>

Some(x) == <<x>>

Val(o) == o[1]

\* Largest file size / Content-Length of the model, in bytes.
MaxSize == 2

-----------------------------------------------------------------------------
(* Strings as tuples of characters                                         *)

Digits == <<"0", "1", "2", "3", "4", "5", "6", "7", "8", "9">>

IsDigit(c) == \E i \in 1..10 : Digits[i] = c

DigitVal(c) == (CHOOSE i \in 1..10 : Digits[i] = c) - 1

\* the characters str.strip(), str.split(), int() and the regex classes \s, \S
\* take as white space, among the characters a string of this module can
\* hold (U+0000..U+00FF): TAB, LF, VT, FF, CR, FS, GS, RS, US, SPACE, NEL, NBSP
SpaceChars ==
    {"\t", "\n", "", "\f", "\r", "", "", "", "", " ", "", " "}

IsSpace(c) == c \in SpaceChars

\* str.strip()
RECURSIVE LStrip(_)
LStrip(s) == IF s # <<>> /\ IsSpace(Head(s)) THEN LStrip(Tail(s)) ELSE s

RECURSIVE RStrip(_)
RStrip(s) ==
    IF s # <<>> /\ IsSpace(s[Len(s)]) THEN RStrip(SubSeq(s, 1, Len(s) - 1)) ELSE s

Strip(s) == RStrip(LStrip(s))

\* [0-9]+ matching the whole of s
IsDigits(s) == s # <<>> /\ \A i \in 1..Len(s) : IsDigit(s[i])

RECURSIVE DigitsVal(_)
DigitsVal(s) ==
    IF s = <<>> THEN 0 ELSE 10 * DigitsVal(SubSeq(s, 1, Len(s) - 1)) + DigitVal(s[Len(s)])

\* the digits of an int() literal: decimal digits, with single underscores
\* allowed between two digits
IsIntBody(s) ==
    /\ s # <<>>
    /\ IsDigit(s[1])
    /\ IsDigit(s[Len(s)])
    /\ \A i \in 1..Len(s) :
          \/ IsDigit(s[i])
          \/ s[i] = "_" /\ IsDigit(s[i - 1]) /\ IsDigit(s[i + 1])

\* int(s): white space around the literal is dropped, a sign may lead it,
\* underscores between digits do not count; None stands for ValueError
ParseInt(s) ==
    LET t == Strip(s)
        signed == t # <<>> /\ Head(t) \in {"+", "-"}
        body == IF signed THEN Tail(t) ELSE t
    IN  IF ~IsIntBody(body) THEN None
        ELSE IF signed /\ Head(t) = "-" THEN Some(0 - DigitsVal(SelectSeq(body, IsDigit)))
        ELSE Some(DigitsVal(SelectSeq(body, IsDigit)))

\* str(n) for 0 <= n
RECURSIVE IntStr(_)
IntStr(n) == IF n < 10 THEN <<Digits[n + 1]>> ELSE IntStr(n \div 10) \o <<Digits[(n % 10) + 1]>>

\* needle in hay
Contains(hay, needle) ==
    \E i \in 1..(Len(hay) - Len(needle) + 1) : SubSeq(hay, i, i + Len(needle) - 1) = needle

\* index of the last "." of s at or before position n, 0 if none
RECURSIVE LastDot(_, _)
LastDot(s, n) == IF n <= 0 THEN 0 ELSE IF s[n] = "." THEN n ELSE LastDot(s, n - 1)

\* length of the run of non-space characters of s starting at position i
RECURSIVE NonSpaceRun(_, _)
NonSpaceRun(s, i) == IF i > Len(s) \/ IsSpace(s[i]) THEN 0 ELSE 1 + NonSpaceRun(s, i + 1)

MevPrefix == <<"M", "E", "V", "-">>

VersionLabel == <<"V", "e", "r", "s", "i", "o", "n", ":", " ">>

\* re.search(r"^MEV-.*\.([0-9]+\.[0-9]+\.[0-9]+)\.[0-9]+$", fwversion.strip()):
\* group(1), or None when there is no match
MevVersionMatch(fwversion) ==
    LET s == Strip(fwversion)
        n == Len(s)
        c == LastDot(s, n)
        b == LastDot(s, c - 1)
        a == LastDot(s, b - 1)
        j == LastDot(s, a - 1)
    IN  IF /\ j >= Len(MevPrefix) + 1
           /\ SubSeq(s, 1, Len(MevPrefix)) = MevPrefix
           /\ \A k \in (Len(MevPrefix) + 1)..(j - 1) : s[k] # "\n"
           /\ IsDigits(SubSeq(s, j + 1, a - 1))
           /\ IsDigits(SubSeq(s, a + 1, b - 1))
           /\ IsDigits(SubSeq(s, b + 1, c - 1))
           /\ IsDigits(SubSeq(s, c + 1, n))
        THEN Some(SubSeq(s, j + 1, c - 1))
        ELSE None

\* re.search(r"Version: (\S+)", contents): group(1), or None when there is no match
IssueVersionMatch(contents) ==
    LET L == Len(VersionLabel)
        hits == {i \in 1..(Len(contents) - L) :
                    /\ SubSeq(contents, i, i + L - 1) = VersionLabel
                    /\ NonSpaceRun(contents, i + L) > 0}
    IN  IF hits = {} THEN None
        ELSE LET i == CHOOSE h \in hits : \A g \in hits : h <= g
             IN  Some(SubSeq(contents, i + L, i + L + NonSpaceRun(contents, i + L) - 1))

-----------------------------------------------------------------------------
(* URLs and sizes                                                          *)

\* A URL or path is the record urllib.parse.urlparse makes of it; path is the
\* tuple of its segments.
Url(scheme, netloc, path) == [scheme |-> scheme, netloc |-> netloc, path |-> path]

\* is_http_url(url)
is_http_url(url) == url.scheme # "" /\ url.netloc # ""

\* os.path.basename(path)
basename(path) == path[Len(path)]

\* url_extract_filename(url): None stands for ValueError (no path)
url_extract_filename(url) ==
    IF url.path = <<>> THEN None ELSE Some(basename(url.path))

\* url_get_size without the check for a negative value
url_get_size_unchecked(head) ==
    IF ~head.ok \/ head.header = None THEN None
    ELSE ParseInt(Val(head.header))

\* url_get_size(iso_path), given what requests.head produced: head.ok is FALSE
\* when the request raised, head.header is None when Content-Length is missing
url_get_size(head) ==
    IF ~head.ok \/ head.header = None THEN None
    ELSE LET val == ParseInt(Val(head.header))
         IN  IF val = None THEN None
             ELSE IF Val(val) < 0 THEN None
             ELSE val

\* rsh.run("du -b /mnt/imc/acc-os.iso") on the console: the return code and
\* the whitespace-separated fields of its output
DuRun(file) ==
    IF file = None THEN [returncode |-> 1, out |-> <<>>]
    ELSE [returncode |-> 0, out |-> <<IntStr(Val(file)), <<"f">>>>]

\* the size taken from the wrong field of the du output
get_file_size_wrong_field(res) ==
    IF res.returncode # 0 THEN None
    ELSE IF Len(res.out) < 2 THEN None
    ELSE LET val == ParseInt(res.out[2])
         IN  IF val = None THEN None
             ELSE IF Val(val) < 0 THEN None
             ELSE val

\* IPUBMC._get_file_size(rsh, filename), given the result of the du command
get_file_size(res) ==
    IF res.returncode # 0 THEN None
    ELSE IF res.out = <<>> THEN None
    ELSE LET val == ParseInt(res.out[1])
         IN  IF val = None THEN None
             ELSE IF Val(val) < 0 THEN None
             ELSE val

\* matching_url(imc): read_file raises when the marker file does not exist
matching_url(marker, url) ==
    IF marker = None THEN FALSE ELSE Val(marker) = url

\* same_size(imc, expected_size)
same_size(file, expected) ==
    LET fs == get_file_size(DuRun(file))
    IN  fs # None /\ expected = Val(fs)

\* IPUBMC._virtual_media_is_inserted(filename), given the JSON of the GET:
\* data.Inserted is None when the field is missing or not a bool
virtual_media_is_inserted(data, filename) ==
    IF data.Inserted = None \/ ~Val(data.Inserted) THEN FALSE
    ELSE IF data.ImageName = None \/ Val(data.ImageName) # filename THEN FALSE
    ELSE TRUE

-----------------------------------------------------------------------------
(* Program constants                                                       *)

DefaultBudget  == 1200   \* _wait_for_acc_with_retry(timeout=1200)
PostBootBudget == 300    \* post_boot: timeout=300
PingSleep      == 20     \* time.sleep(20); timeout -= 20
RetryBudget    == 240    \* timeout = 240 after a console reboot
MaxFailures    == 5      \* if failures == 5
InsertDeadline == 3600   \* wait_until = time.monotonic() + 3600
InsertSleep    == 10     \* time.sleep(10) in _wait_iso_downloaded
ProgressEvery  == 6      \* if loop_count % 6 == 0: log_progress()

V180 == <<"1", ".", "8", ".", "0">>

V200 == <<"2", ".", "0", ".", "0">>

V250 == <<"2", ".", "5", ".", "0">>

IntelIpu == <<"I", "n", "t", "e", "l", " ", "I", "P", "U">>

-----------------------------------------------------------------------------
(* Inputs and environment responses                                        *)

UrlA == Url("http", "srv", <<"iso", "a.iso">>)

\* a URL an earlier provisioning may have recorded on the console
UrlB == Url("http", "srv", <<"b.iso">>)

UrlNoPath == Url("http", "srv", <<>>)

LocalIso == Url("", "", <<"tmp", "a.iso">>)

\* values of iso_or_image_path
IsoSources == {UrlA, UrlNoPath, LocalIso}

\* what requests.head(iso_path) produces: the request raises, or the
\* Content-Length header is missing, or it holds some text
HeadResponses ==
    {[ok |-> FALSE, header |-> None], [ok |-> TRUE, header |-> None]}
    \cup {[ok |-> TRUE, header |-> Some(h)] :
            h \in {<<"x">>, <<"-", "1">>, <<" ", "1", "\n">>, <<"\r", "0", "_", "2", "\f">>,
                   <<"1", "_">>}
                  \cup {IntStr(n) : n \in 0..MaxSize}}

\* seconds of time.monotonic() that one request of the media wait takes (the
\* opening of the console session, a GET of VirtualMedia/1, the du of
\* log_progress): none, five, or a request that stalls for the hour
RequestTimes == {0, 5, InsertDeadline}

\* requests of one media wait that the model lets take five seconds; those
\* that take no time and those that stall are not limited
MaxSlow == 1

\* 1 for a request that took time without stalling, 0 otherwise
SlowCount(d) == IF d # 0 /\ d < InsertDeadline THEN 1 ELSE 0

\* sizes the console file /mnt/imc/acc-os.iso can have
FileStates == {None} \cup {Some(n) : n \in 0..MaxSize}

\* "FirmwareVersion" of Managers/1: None when missing or not a string
FirmwareVersions ==
    {None,
     Some(MevPrefix \o <<"S", ".">> \o V180 \o <<".", "6">>),
     Some(<<" ">> \o MevPrefix \o <<".">> \o V200 \o <<".", "1", "7", "\n">>),
     Some(MevPrefix \o <<"S", ".">> \o V250 \o <<".", "1">>),
     Some(MevPrefix \o V180)}

\* "Name" of the root resource: None when missing or not a string
RootNames ==
    {None, Some(IntelIpu \o <<" ", "E">>), Some(<<"B", "M", "C">>)}

\* contents of /etc/issue on the console
IssueBanners ==
    {VersionLabel \o V180 \o <<"\r", "\n">>,
     <<"M", "e", "V", " ">> \o VersionLabel \o V200 \o <<".", "1", " ", "x">>,
     VersionLabel \o V250,
     <<"M", "e", "V", "\n">>}

\* output of "cat /etc/issue.net" on the console
IssueNetBanners ==
    {V250 \o <<".", "1", "1", "7", "\n">>, V180 \o <<".", "6", "\n">>, <<"M", "e", "V", "\n">>}

\* configured target versions of ensure_firmware
Targets == {V250, V180}

-----------------------------------------------------------------------------
(* Initial state: nothing is running; the console and the BMC are in a     *)
(* state an earlier provisioning may have left.                            *)

\* the boot calls that may run at once against the one BMC of the model
Sessions == {1, 2}

\* a boot call that has not begun: no URL, no size yet
IdleSession ==
    [pc |-> "idle", iso_path |-> UrlA, expected_size |-> None, turn |-> 0, error |-> ""]

\* an AssistedClientAutomation call that has not begun
IdleAi ==
    [pc |-> "idle", op |-> "", outcome |-> "none", error |-> "",
     exists |-> FALSE, cs |-> "", tries |-> 0, calls |-> 0,
     raised |-> FALSE, downloaded |-> FALSE, errorLogged |-> FALSE]

Init ==
    /\ pc = "idle"
    /\ stack = <<>>
    /\ outcome = "none"
    /\ error = ""
    /\ op = ""
    /\ iso = UrlA
    /\ iso_path = UrlA
    /\ host_bmc = FALSE
    /\ force = FALSE
    /\ target = V180
    /\ events = <<>>
    /\ timeout = 0
    /\ failures = 0
    /\ polls = 0
    /\ budget = 0
    /\ headResp = None
    /\ expected_size = None
    /\ urlMatched = FALSE
    /\ sizeMatched = FALSE
    /\ now = 0
    /\ slow = 0
    /\ loop_count = 0
    /\ urlMarker \in {None, Some(UrlA), Some(UrlB)}
    /\ isoFile \in FileStates
    /\ \/ vmInserted = FALSE /\ vmImageName = None
       \/ vmInserted = TRUE /\ vmImageName = Some("a.iso")
    /\ transfer = FALSE
    /\ bootOverride = "Disabled"
    /\ httpServer = "off"
    /\ reach = FALSE
    /\ fwResp = None
    /\ banner = <<>>
    /\ ver = <<>>
    /\ isIpu = FALSE
    /\ sess = [s \in Sessions |-> IdleSession]
    /\ ai = IdleAi

-----------------------------------------------------------------------------
(* Control: calls, returns and the ways a call ends                        *)

Emit(e) == events' = Append(events, e)

\* call the function starting at position f and come back to position r
Call(f, r) == pc' = f /\ stack' = <<r>> \o stack /\ UNCHANGED <<outcome, error, httpServer>>

Goto(l) == pc' = l /\ UNCHANGED <<stack, outcome, error, httpServer>>

\* return from the current function; the top-level call returns to its caller
Return ==
    /\ IF stack = <<>>
       THEN pc' = "done" /\ outcome' = "returned" /\ UNCHANGED <<stack, error>>
       ELSE pc' = Head(stack) /\ stack' = Tail(stack) /\ UNCHANGED <<outcome, error>>
    /\ UNCHANGED httpServer

\* common.HttpServerManager.__enter__: the server is started
HttpServerManager_enter == "on"

\* common.HttpServerManager.__exit__: the server is shut down
HttpServerManager_exit == "off"

\* an exception that passes through the with block without its exit being run
Abort_server_left(kind, e) ==
    /\ pc' = "done"
    /\ outcome' = kind
    /\ error' = e
    /\ stack' = <<>>
    /\ UNCHANGED httpServer

\* An exception that no frame catches: every frame is left, and the
\* "with common.HttpServerManager(...)" block of _redfish_boot_ipu, when the
\* exception passes through it, shuts the server down on the way out.
Abort(kind, e) ==
    /\ pc' = "done"
    /\ outcome' = kind
    /\ error' = e
    /\ stack' = <<>>
    /\ httpServer' = HttpServerManager_exit

Raise(e) == Abort("raised", e)

\* logger.error_and_exit(msg): logs and ends the process through SystemExit
ErrorAndExit(e) == Abort("exit", e)

-----------------------------------------------------------------------------
(* IPUBMC: firmware version and card identity probes                       *)

\* IPUBMC._redfish_available(url), given whether the GET of Systems/1 went
\* through (no RequestException, status 2xx)
redfish_available(getOk) == getOk

\* a console probe that answers with a placeholder version when it finds none
version_via_ssh_placeholder(connected, contents) ==
    IF connected /\ IssueVersionMatch(contents) # None
    THEN IssueVersionMatch(contents)
    ELSE Some(<<"0", ".", "0", ".", "0">>)

\* IPUBMC._version_via_ssh(), given whether ssh_connect succeeded within its
\* 5 s timeout and the contents of /etc/issue
version_via_ssh(connected, contents) ==
    IF ~connected THEN None ELSE IssueVersionMatch(contents)

\* the two branches of version() exchanged
version_channel_swapped(available) == IF available THEN "version_ssh" ELSE "redfish_version"

\* version(): the channel chosen by "if self._redfish_available(self.url)"
version_channel(available) == IF available THEN "redfish_version" ELSE "version_ssh"

\* the two branches of is_ipu() exchanged
is_ipu_channel_swapped(available) == IF available THEN "is_ipu_ssh" ELSE "redfish_name"

\* is_ipu(): the channel chosen by "if self._redfish_available(self.url)"
is_ipu_channel(available) == IF available THEN "redfish_name" ELSE "is_ipu_ssh"

\* version(): if self._redfish_available(self.url)
VersionProbe ==
    /\ pc = "version"
    /\ \E getOk \in BOOLEAN :
          /\ reach' = redfish_available(getOk)
          /\ Goto(version_channel(redfish_available(getOk)))
    /\ Emit("GET Systems/1")
    /\ UNCHANGED <<inputVars, monitorVars, mediaVars, consoleVars, bmcVars,
                   fwResp, banner, ver, isIpu>>
    /\ UNCHANGED otherVars

\* version(): return self._redfish_version()
RedfishVersion ==
    /\ pc = "redfish_version"
    /\ Emit("GET Managers/1")
    /\ \E getOk \in BOOLEAN, fw \in FirmwareVersions :
          IF ~getOk
          THEN ErrorAndExit("Request failed") /\ UNCHANGED <<fwResp, ver>>
          ELSE /\ fwResp' = fw
               /\ IF fw = None
                  THEN ErrorAndExit("Failed to get FirmwareVersion") /\ UNCHANGED ver
                  ELSE IF MevVersionMatch(Val(fw)) = None
                  THEN ErrorAndExit("Failed to extract version") /\ UNCHANGED ver
                  ELSE ver' = Val(MevVersionMatch(Val(fw))) /\ Return
    /\ UNCHANGED <<inputVars, monitorVars, mediaVars, consoleVars, bmcVars,
                   reach, banner, isIpu>>
    /\ UNCHANGED otherVars

\* version(): fwversion = self._version_via_ssh(); raise if not fwversion
VersionSsh ==
    /\ pc = "version_ssh"
    /\ Emit("ssh /etc/issue")
    /\ \E connected \in BOOLEAN, contents \in IssueBanners :
          LET fwversion == version_via_ssh(connected, contents)
          IN  /\ banner' = IF connected THEN contents ELSE <<>>
              /\ IF fwversion = None
                 THEN Raise("Failed to detect imc version") /\ UNCHANGED ver
                 ELSE ver' = Val(fwversion) /\ Return
    /\ UNCHANGED <<inputVars, monitorVars, mediaVars, consoleVars, bmcVars,
                   reach, fwResp, isIpu>>
    /\ UNCHANGED otherVars

\* is_ipu(): if self._redfish_available(self.url)
IsIpuProbe ==
    /\ pc = "is_ipu"
    /\ \E getOk \in BOOLEAN :
          /\ reach' = redfish_available(getOk)
          /\ Goto(is_ipu_channel(redfish_available(getOk)))
    /\ Emit("GET Systems/1")
    /\ UNCHANGED <<inputVars, monitorVars, mediaVars, consoleVars, bmcVars,
                   fwResp, banner, ver, isIpu>>
    /\ UNCHANGED otherVars

\* is_ipu(): return "Intel IPU" in self._redfish_name()
IsIpuName ==
    /\ pc = "redfish_name"
    /\ Emit("GET /redfish/v1/")
    /\ \E getOk \in BOOLEAN, name \in RootNames :
          IF ~getOk
          THEN ErrorAndExit("Request failed") /\ UNCHANGED <<fwResp, isIpu>>
          ELSE /\ fwResp' = name
               /\ IF name = None
                  THEN ErrorAndExit("Failed to get Name") /\ UNCHANGED isIpu
                  ELSE isIpu' = Contains(Val(name), IntelIpu) /\ Return
    /\ UNCHANGED <<inputVars, monitorVars, mediaVars, consoleVars, bmcVars,
                   reach, banner, ver>>
    /\ UNCHANGED otherVars

\* is_ipu(): return self._version_via_ssh() is not None
IsIpuSsh ==
    /\ pc = "is_ipu_ssh"
    /\ Emit("ssh /etc/issue")
    /\ \E connected \in BOOLEAN, contents \in IssueBanners :
          /\ banner' = IF connected THEN contents ELSE <<>>
          /\ isIpu' = (version_via_ssh(connected, contents) # None)
    /\ Return
    /\ UNCHANGED <<inputVars, monitorVars, mediaVars, consoleVars, bmcVars,
                   reach, fwResp, ver>>
    /\ UNCHANGED otherVars

\* a caller outside the model invokes IPUBMC.version()
CallVersion ==
    /\ pc = "idle"
    /\ op' = "version"
    /\ Goto("version")
    /\ UNCHANGED <<iso, iso_path, host_bmc, force, target, events, monitorVars,
                   mediaVars, consoleVars, bmcVars, probeVars>>
    /\ UNCHANGED otherVars

\* a caller outside the model invokes IPUBMC.is_ipu()
CallIsIpu ==
    /\ pc = "idle"
    /\ op' = "is_ipu"
    /\ Goto("is_ipu")
    /\ UNCHANGED <<iso, iso_path, host_bmc, force, target, events, monitorVars,
                   mediaVars, consoleVars, bmcVars, probeVars>>
    /\ UNCHANGED otherVars

-----------------------------------------------------------------------------
(* IPUClusterNode.start and _redfish_boot_ipu                              *)

\* start(iso_or_image_path): the first ipu_bmc.version() of the condition
CallStart ==
    /\ pc = "idle"
    /\ \E i \in IsoSources : iso' = i
    /\ op' = "start"
    /\ Call("version", "start_first")
    /\ UNCHANGED <<iso_path, host_bmc, force, target, events, monitorVars, mediaVars,
                   consoleVars, bmcVars, probeVars>>
    /\ UNCHANGED otherVars

\* start: ipu_bmc.version() != "1.8.0" and ...: a first version of 1.8.0
\* decides the condition; otherwise version() is called again
StartFirst ==
    /\ pc = "start_first"
    /\ IF ver # V180 THEN Call("version", "start_second") ELSE Goto("_redfish_boot_ipu")
    /\ UNCHANGED <<inputVars, events, monitorVars, mediaVars, consoleVars, bmcVars, probeVars>>
    /\ UNCHANGED otherVars

\* the second comparison of the condition left out: the boot follows whatever
\* the second version() returned
StartSecond_unchecked ==
    /\ pc = "start_second"
    /\ Goto("_redfish_boot_ipu")
    /\ UNCHANGED <<inputVars, events, monitorVars, mediaVars, consoleVars, bmcVars, probeVars>>
    /\ UNCHANGED otherVars

\* start: ... and ipu_bmc.version() != "2.0.0": when true, version() is called
\* a third time for the message of error_and_exit
StartSecond ==
    /\ pc = "start_second"
    /\ IF ver # V200 THEN Call("version", "start_unexpected") ELSE Goto("_redfish_boot_ipu")
    /\ UNCHANGED <<inputVars, events, monitorVars, mediaVars, consoleVars, bmcVars, probeVars>>
    /\ UNCHANGED otherVars

\* start: logger.error_and_exit(f"Unexpected version ...")
StartUnexpected ==
    /\ pc = "start_unexpected"
    /\ ErrorAndExit("Unexpected version")
    /\ UNCHANGED <<inputVars, events, monitorVars, mediaVars, consoleVars, bmcVars, probeVars>>
    /\ UNCHANGED otherVars

\* _boot_iso -> _redfish_boot_ipu: an http URL is handed to the BMC as it is; a
\* local file must exist and is served by a temporary HTTP server
RedfishBootIpu ==
    /\ pc = "_redfish_boot_ipu"
    /\ IF is_http_url(iso)
       THEN iso_path' = iso /\ Goto("boot_iso_with_redfish")
       ELSE \E exists \in BOOLEAN :
               IF ~exists
               THEN Raise("ISO file does not exist") /\ UNCHANGED iso_path
               ELSE /\ iso_path' = Url("http", "lh", <<basename(iso.path)>>)
                    /\ httpServer' = HttpServerManager_enter
                    /\ pc' = "boot_iso_with_redfish"
                    /\ UNCHANGED <<stack, outcome, error>>
    /\ UNCHANGED <<op, iso, host_bmc, force, target, events, monitorVars, mediaVars,
                   consoleVars, bmcVars, probeVars>>
    /\ UNCHANGED otherVars

\* boot_iso_with_redfish has returned (its locals are gone), _redfish_boot_ipu
\* returns (the with block, if any, is left) and _boot_iso goes on to
\* self._wait_for_acc_with_retry(acc=acc), timeout = 1200
BootIsoWait ==
    /\ pc = "boot_command_sent"
    /\ httpServer' = HttpServerManager_exit
    /\ pc' = "_wait_for_acc_with_retry"
    /\ stack' = <<"start_return">> \o stack
    /\ timeout' = DefaultBudget
    /\ budget' = DefaultBudget
    /\ headResp' = None
    /\ expected_size' = None
    /\ urlMatched' = FALSE
    /\ sizeMatched' = FALSE
    /\ UNCHANGED <<outcome, error, inputVars, events, failures, polls, now, slow, loop_count,
                   consoleVars, bmcVars, probeVars>>
    /\ UNCHANGED otherVars

\* start: return True
StartReturn ==
    /\ pc = "start_return"
    /\ Return
    /\ UNCHANGED <<inputVars, events, monitorVars, mediaVars, consoleVars, bmcVars, probeVars>>
    /\ UNCHANGED otherVars

-----------------------------------------------------------------------------
(* IPUClusterNode._wait_for_acc_with_retry: the liveness monitor           *)

\* the countdown taken as expired one poll before it reaches zero
countdown_expired_one_poll_early(t) == t <= PingSleep

\* if timeout <= 0
countdown_expired(t) == t <= 0

\* the limit tested one escalation late
too_many_failures_late(f) == f > MaxFailures

\* if failures == 5: logger.error_and_exit(...)
too_many_failures(f) == f = MaxFailures

\* _wait_for_acc_with_retry is entered: failures = 0
MonitorStart ==
    /\ pc = "_wait_for_acc_with_retry"
    /\ failures' = 0
    /\ polls' = 0
    /\ Emit("wait_for_acc")
    /\ Goto("wait_ping")
    /\ UNCHANGED <<inputVars, timeout, budget, mediaVars, consoleVars, bmcVars, probeVars>>
    /\ UNCHANGED otherVars

\* one turn of the loop up to the escalation: ping, and on no answer sleep,
\* count down and, on expiry, count the failure and give up at the limit
MonitorPoll ==
    /\ pc = "wait_ping"
    /\ \E ping \in BOOLEAN :
          IF ping
          THEN Goto("acc_connect") /\ UNCHANGED <<timeout, failures, polls>>
          ELSE /\ timeout' = timeout - PingSleep
               /\ polls' = polls + 1
               /\ IF countdown_expired(timeout - PingSleep)
                  THEN /\ failures' = failures + 1
                       /\ IF too_many_failures(failures + 1)
                          THEN ErrorAndExit("Too many failures trying to get ACC up")
                          ELSE Goto("imc_reboot")
                  ELSE Goto("wait_ping") /\ UNCHANGED failures
    /\ UNCHANGED <<inputVars, events, budget, mediaVars, consoleVars, bmcVars, probeVars>>
    /\ UNCHANGED otherVars

\* an escalation that starts the countdown again at the default budget
MonitorReboot_default_budget ==
    /\ pc = "imc_reboot"
    /\ \E connected \in BOOLEAN :
          IF connected
          THEN /\ Emit("imc reboot")
               /\ timeout' = DefaultBudget
               /\ polls' = 0
               /\ Goto("wait_ping")
          ELSE Raise("ssh_connect to the console failed") /\ UNCHANGED <<events, timeout, polls>>
    /\ UNCHANGED <<inputVars, failures, budget, mediaVars, consoleVars, bmcVars, probeVars>>
    /\ UNCHANGED otherVars

\* the escalation: ssh to the console (the BMC address), run reboot, timeout = 240
MonitorReboot ==
    /\ pc = "imc_reboot"
    /\ \E connected \in BOOLEAN :
          IF connected
          THEN /\ Emit("imc reboot")
               /\ timeout' = RetryBudget
               /\ polls' = 0
               /\ Goto("wait_ping")
          ELSE Raise("ssh_connect to the console failed") /\ UNCHANGED <<events, timeout, polls>>
    /\ UNCHANGED <<inputVars, failures, budget, mediaVars, consoleVars, bmcVars, probeVars>>
    /\ UNCHANGED otherVars

\* after the loop: acc.ssh_connect("root", "redhat"); acc.run("uname -a")
MonitorConnect ==
    /\ pc = "acc_connect"
    /\ \E connected \in BOOLEAN :
          IF connected
          THEN Emit("acc uname -a") /\ Return
          ELSE Raise("ssh_connect to the card failed") /\ UNCHANGED events
    /\ UNCHANGED <<inputVars, monitorVars, mediaVars, consoleVars, bmcVars, probeVars>>
    /\ UNCHANGED otherVars

-----------------------------------------------------------------------------
(* IPUClusterNode.post_boot                                                *)

\* the driver loaded before it is unloaded
CallPostBoot_load_first ==
    /\ pc = "idle"
    /\ op' = "post_boot"
    /\ \E connected \in BOOLEAN :
          IF connected
          THEN /\ events' = events \o <<"modprobe idpf", "rmmod idpf">>
               /\ Call("_wait_for_acc_with_retry", "post_boot_return")
               /\ timeout' = PostBootBudget
               /\ budget' = PostBootBudget
          ELSE Raise("ssh_connect to the host failed") /\ UNCHANGED <<events, timeout, budget>>
    /\ UNCHANGED <<iso, iso_path, host_bmc, force, target, failures, polls, mediaVars,
                   consoleVars, bmcVars, probeVars>>
    /\ UNCHANGED otherVars

\* post_boot: reload idpf on the card's host, then
\* self._wait_for_acc_with_retry(acc=acc, timeout=300)
CallPostBoot ==
    /\ pc = "idle"
    /\ op' = "post_boot"
    /\ \E connected \in BOOLEAN :
          IF connected
          THEN /\ events' = events \o <<"rmmod idpf", "modprobe idpf">>
               /\ Call("_wait_for_acc_with_retry", "post_boot_return")
               /\ timeout' = PostBootBudget
               /\ budget' = PostBootBudget
          ELSE Raise("ssh_connect to the host failed") /\ UNCHANGED <<events, timeout, budget>>
    /\ UNCHANGED <<iso, iso_path, host_bmc, force, target, failures, polls, mediaVars,
                   consoleVars, bmcVars, probeVars>>
    /\ UNCHANGED otherVars

\* post_boot: return True
PostBootReturn ==
    /\ pc = "post_boot_return"
    /\ Return
    /\ UNCHANGED <<inputVars, events, monitorVars, mediaVars, consoleVars, bmcVars, probeVars>>
    /\ UNCHANGED otherVars

-----------------------------------------------------------------------------
(* IPUBMC.boot_iso_with_redfish                                            *)

\* the JSON the BMC returns for GET Systems/1/VirtualMedia/1
VirtualMediaData == [Inserted |-> Some(vmInserted), ImageName |-> vmImageName]

\* the two checks joined by "and"
must_insert_both(marker, file, url, expected) ==
    ~matching_url(marker, url) /\ ~same_size(file, expected)

\* if not matching_url(imc) or not same_size(imc, expected_size): insert
must_insert(marker, file, url, expected) ==
    ~matching_url(marker, url) \/ ~same_size(file, expected)

\* a wait whose loop condition is false at once
wait_ends_at_once(data, filename, file, expected) == FALSE

\* while not self._virtual_media_is_inserted(filename): the wait goes on
wait_goes_on(data, filename, file, expected) ==
    ~virtual_media_is_inserted(data, filename)

\* a wait without its deadline check
deadline_passed_never(t) == FALSE

\* if time.monotonic() >= wait_until
deadline_passed(t) == t >= InsertDeadline

\* expected_size = url_get_size(iso_path); raise if it is None
BootSize ==
    /\ pc = "boot_iso_with_redfish"
    /\ Emit("HEAD iso")
    /\ \E head \in HeadResponses :
          /\ headResp' = Some(head)
          /\ expected_size' = url_get_size(head)
          /\ IF url_get_size(head) = None
             THEN Raise("failed to determine file size of URL")
             ELSE Goto("_prepare_imc")
    /\ UNCHANGED <<inputVars, monitorVars, urlMatched, sizeMatched, now, slow,
                   loop_count,
                   consoleVars, bmcVars, probeVars>>
    /\ UNCHANGED otherVars

\* self._prepare_imc(extract_server(iso_path)): certificates, boot options
\* and a reboot of the console, all over ssh
BootPrepareImc ==
    /\ pc = "_prepare_imc"
    /\ \E connected \in BOOLEAN :
          IF connected
          THEN Emit("prepare_imc") /\ Goto("_restart_redfish")
          ELSE Raise("ssh_connect failed in _prepare_imc") /\ UNCHANGED events
    /\ UNCHANGED <<inputVars, monitorVars, mediaVars, consoleVars, bmcVars, probeVars>>
    /\ UNCHANGED otherVars

\* self._restart_redfish() before the media check
BootRestartRedfish ==
    /\ pc = "_restart_redfish"
    /\ \E connected \in BOOLEAN :
          IF connected
          THEN Emit("restart redfish") /\ Goto("check_media")
          ELSE Raise("ssh_connect failed in _restart_redfish") /\ UNCHANGED events
    /\ UNCHANGED <<inputVars, monitorVars, mediaVars, consoleVars, bmcVars, probeVars>>
    /\ UNCHANGED otherVars

\* imc = self._create_imc_rsh(); the condition on matching_url and same_size
BootCheckMedia ==
    /\ pc = "check_media"
    /\ \E connected \in BOOLEAN :
          IF connected
          THEN /\ urlMatched' = (urlMarker = Some(iso_path))
               /\ sizeMatched' = (isoFile = expected_size)
               /\ Goto(IF must_insert(urlMarker, isoFile, iso_path, Val(expected_size))
                       THEN "_cleanup_iso" ELSE "write_url")
          ELSE Raise("ssh_connect failed in _create_imc_rsh") /\ UNCHANGED <<urlMatched, sizeMatched>>
    /\ UNCHANGED <<inputVars, events, monitorVars, headResp, expected_size, now, slow,
                   loop_count,
                   consoleVars, bmcVars, probeVars>>
    /\ UNCHANGED otherVars

\* self._cleanup_iso(): rm -f /mnt/imc/acc-os.iso over a new ssh session
BootCleanupIso ==
    /\ pc = "_cleanup_iso"
    /\ \E connected \in BOOLEAN :
          IF connected
          THEN /\ Emit("rm acc-os.iso")
               /\ isoFile' = None
               /\ Goto("_insert_media")
          ELSE Raise("ssh_connect failed in _cleanup_iso") /\ UNCHANGED <<events, isoFile>>
    /\ UNCHANGED <<inputVars, monitorVars, mediaVars, urlMarker, bmcVars, probeVars>>
    /\ UNCHANGED otherVars

\* _insert_media: self._requests_post(InsertMedia); a failed request is only
\* logged.  A BMC that accepts the request starts fetching the image.
BootInsertMedia ==
    /\ pc = "_insert_media"
    /\ Emit("POST InsertMedia")
    /\ \E accepted \in BOOLEAN :
          /\ transfer' = accepted
          /\ IF accepted
             THEN vmInserted' = FALSE /\ vmImageName' = url_extract_filename(iso_path)
             ELSE UNCHANGED <<vmInserted, vmImageName>>
    /\ Goto("_wait_iso_downloaded")
    /\ UNCHANGED <<inputVars, monitorVars, mediaVars, consoleVars, bootOverride, probeVars>>
    /\ UNCHANGED otherVars

\* _wait_iso_downloaded up to its loop: wait_until = time.monotonic() + 3600,
\* filename = url_extract_filename(iso_path), imc = self._create_imc_rsh();
\* c is the time it takes to open the console session
WaitIsoStart ==
    /\ pc = "_wait_iso_downloaded"
    /\ loop_count' = 0
    /\ IF url_extract_filename(iso_path) = None
       THEN Raise("URL has not path name") /\ now' = 0 /\ slow' = 0
       ELSE \E connected \in BOOLEAN :
               IF connected
               THEN /\ Goto("wait_inserted")
                    /\ \E c \in RequestTimes :
                          /\ SlowCount(c) <= MaxSlow
                          /\ now' = c
                          /\ slow' = SlowCount(c)
               ELSE /\ Raise("ssh_connect failed in _wait_iso_downloaded")
                    /\ now' = 0 /\ slow' = 0
    /\ UNCHANGED <<inputVars, events, monitorVars, headResp, expected_size, urlMatched,
                   sizeMatched, consoleVars, bmcVars, probeVars>>
    /\ UNCHANGED otherVars

\* one turn of "while not self._virtual_media_is_inserted(filename)": the GET
\* (a failed GET ends the process in _requests_get), and when the wait goes
\* on: sleep 10 s, during which the BMC may go on with the transfer, the
\* deadline check against the clock, which has moved on by the time d of the
\* GET and by the sleep, and every sixth turn log_progress, whose du takes
\* the time e that the next turn finds on the clock.  When the loop ends the
\* function returns and its locals (the clock reading, loop_count) are gone.
WaitIsoPoll ==
    /\ pc = "wait_inserted"
    /\ \E getOk \in BOOLEAN :
          IF ~getOk
          THEN /\ ErrorAndExit("Request failed")
               /\ UNCHANGED <<now, slow, loop_count, isoFile, vmInserted>>
          ELSE IF ~wait_goes_on(VirtualMediaData, Val(url_extract_filename(iso_path)),
                                isoFile, Val(expected_size))
          THEN /\ Goto("write_url")
               /\ now' = 0
               /\ slow' = 0
               /\ loop_count' = 0
               /\ UNCHANGED <<isoFile, vmInserted>>
          ELSE /\ \E f \in FileStates, flagged \in BOOLEAN :
                     /\ IF transfer
                        THEN /\ f # None
                             /\ isoFile # None => Val(f) >= Val(isoFile)
                             /\ Val(f) <= Val(expected_size)
                        ELSE f = isoFile /\ ~flagged
                     /\ isoFile' = f
                     /\ vmInserted' = (vmInserted \/ flagged)
               /\ \E d \in RequestTimes, e \in RequestTimes :
                     /\ slow + SlowCount(d) + SlowCount(e) <= MaxSlow
                     /\ IF deadline_passed(now + d + InsertSleep)
                        THEN /\ e = 0
                             /\ Raise("Timeout waiting for VirtualMedia")
                             /\ now' = now + d + InsertSleep
                             /\ slow' = slow + SlowCount(d)
                             /\ UNCHANGED loop_count
                        ELSE /\ e # 0 => loop_count % ProgressEvery = 0
                             /\ now' = now + d + InsertSleep + e
                             /\ slow' = slow + SlowCount(d) + SlowCount(e)
                             /\ IF loop_count % ProgressEvery = 0 /\ Val(expected_size) = 0
                                THEN Raise("ZeroDivisionError") /\ UNCHANGED loop_count
                                ELSE loop_count' = loop_count + 1 /\ Goto("wait_inserted")
    /\ UNCHANGED <<inputVars, events, monitorVars, headResp, expected_size, urlMatched,
                   sizeMatched, urlMarker, vmImageName, transfer, bootOverride, probeVars>>
    /\ UNCHANGED otherVars

\* imc.write("/work/url", iso_path) on the session opened before the check
BootWriteUrl ==
    /\ pc = "write_url"
    /\ Emit("write /work/url")
    /\ urlMarker' = Some(iso_path)
    /\ Goto("_bootsource_override_cd")
    /\ UNCHANGED <<inputVars, monitorVars, mediaVars, isoFile, bmcVars, probeVars>>
    /\ UNCHANGED otherVars

\* a PATCH whose failure ends the process, as a failed GET does
BootOverrideCd_fatal ==
    /\ pc = "_bootsource_override_cd"
    /\ Emit("PATCH Once Cd")
    /\ \E accepted \in BOOLEAN :
          IF accepted
          THEN bootOverride' = "Once" /\ Goto("_reboot")
          ELSE ErrorAndExit("Request failed") /\ UNCHANGED bootOverride
    /\ UNCHANGED <<inputVars, monitorVars, mediaVars, consoleVars, vmInserted, vmImageName,
                   transfer, probeVars>>
    /\ UNCHANGED otherVars

\* self._bootsource_override_cd(): PATCH {Once, Cd}; a failed request is only logged
BootOverrideCd ==
    /\ pc = "_bootsource_override_cd"
    /\ Emit("PATCH Once Cd")
    /\ \E accepted \in BOOLEAN :
          bootOverride' = IF accepted THEN "Once" ELSE bootOverride
    /\ Goto("_reboot")
    /\ UNCHANGED <<inputVars, monitorVars, mediaVars, consoleVars, vmInserted, vmImageName,
                   transfer, probeVars>>
    /\ UNCHANGED otherVars

\* the reset as the last step of boot_iso_with_redfish
BootReboot_last ==
    /\ pc = "_reboot"
    /\ Emit("POST Manager.Reset")
    /\ Goto("boot_command_sent")
    /\ UNCHANGED <<inputVars, monitorVars, mediaVars, consoleVars, bmcVars, probeVars>>
    /\ UNCHANGED otherVars

\* self._reboot(): POST ForceRestart, a failed request is only logged; then
\* time.sleep(5 * 60)
BootReboot ==
    /\ pc = "_reboot"
    /\ Emit("POST Manager.Reset")
    /\ Goto("_restart_redfish_again")
    /\ UNCHANGED <<inputVars, monitorVars, mediaVars, consoleVars, bmcVars, probeVars>>
    /\ UNCHANGED otherVars

\* self._restart_redfish() after the reboot: a new ssh session to the console
BootRestartRedfishAgain ==
    /\ pc = "_restart_redfish_again"
    /\ \E connected \in BOOLEAN :
          IF connected
          THEN Emit("restart redfish") /\ Goto("_unset_bootsource_override")
          ELSE Raise("ssh_connect failed in _restart_redfish") /\ UNCHANGED events
    /\ UNCHANGED <<inputVars, monitorVars, mediaVars, consoleVars, bmcVars, probeVars>>
    /\ UNCHANGED otherVars

\* self._unset_bootsource_override(): PATCH {Disabled}; a failed request is
\* only logged; boot_iso_with_redfish returns
BootUnsetOverride ==
    /\ pc = "_unset_bootsource_override"
    /\ Emit("PATCH Disabled")
    /\ \E accepted \in BOOLEAN :
          bootOverride' = IF accepted THEN "Disabled" ELSE bootOverride
    /\ Goto("boot_command_sent")
    /\ UNCHANGED <<inputVars, monitorVars, mediaVars, consoleVars, vmInserted, vmImageName,
                   transfer, probeVars>>
    /\ UNCHANGED otherVars

-----------------------------------------------------------------------------
(* IPUBMC.ensure_firmware                                                  *)

\* the banner compared for equality with the target
firmware_is_same_exact(version, out) == Strip(out) = version

\* firmware_is_same(): version in ret.out, ret the result of cat /etc/issue.net
firmware_is_same(version, out) == Contains(out, version)

\* an assert statement that is not evaluated
assert_skipped(cond) == TRUE

\* assert self.is_ipu(): whether the statement lets the call go on
assert_passes(cond) == cond

\* if force or (not firmware_is_same()): update
update_required(f, same) == f \/ ~same

\* ensure_firmware(force, version): assert self.is_ipu()
CallEnsureFirmware ==
    /\ pc = "idle"
    /\ op' = "ensure_firmware"
    /\ \E f \in BOOLEAN, v \in Targets, h \in BOOLEAN :
          force' = f /\ target' = v /\ host_bmc' = h
    /\ Call("is_ipu", "ensure_firmware")
    /\ UNCHANGED <<iso, iso_path, events, monitorVars, mediaVars, consoleVars, bmcVars,
                   probeVars>>
    /\ UNCHANGED otherVars

\* assert self.is_ipu(), then the check whether an update is required: with
\* force the banner is not read (or short-circuits)
EnsureFirmwareCheck ==
    /\ pc = "ensure_firmware"
    /\ IF ~assert_passes(isIpu)
       THEN Raise("AssertionError") /\ UNCHANGED <<events, banner>>
       ELSE IF force
       THEN Goto("firmware_up") /\ UNCHANGED <<events, banner>>
       ELSE \E connected \in BOOLEAN, out \in IssueNetBanners :
               IF ~connected
               THEN Raise("ssh_connect failed in firmware_is_same") /\ UNCHANGED <<events, banner>>
               ELSE /\ Emit("cat /etc/issue.net")
                    /\ banner' = out
                    /\ IF update_required(force, firmware_is_same(target, out))
                       THEN Goto("firmware_up")
                       ELSE Return
    /\ UNCHANGED <<inputVars, monitorVars, mediaVars, consoleVars, bmcVars,
                   reach, fwResp, ver, isIpu>>
    /\ UNCHANGED otherVars

\* lh.run_in_container("... firmware up --version ..."); a failed flash ends
\* the process
EnsureFirmwareFlash ==
    /\ pc = "firmware_up"
    /\ Emit("firmware up")
    /\ \E success \in BOOLEAN :
          IF success THEN Goto("cold_boot") ELSE ErrorAndExit("Failed to flash new firmware")
    /\ UNCHANGED <<inputVars, monitorVars, mediaVars, consoleVars, bmcVars, probeVars>>
    /\ UNCHANGED otherVars

\* self.cold_boot(): assert self._host_bmc is not None; self._host_bmc.cold_boot()
EnsureFirmwareColdBoot ==
    /\ pc = "cold_boot"
    /\ IF host_bmc
       THEN Emit("cold_boot") /\ Goto("firmware_verify")
       ELSE Raise("AssertionError") /\ UNCHANGED events
    /\ UNCHANGED <<inputVars, monitorVars, mediaVars, consoleVars, bmcVars, probeVars>>
    /\ UNCHANGED otherVars

\* the re-probe after the cold boot with its result ignored
EnsureFirmwareVerify_ignored ==
    /\ pc = "firmware_verify"
    /\ \E connected \in BOOLEAN, out \in IssueNetBanners :
          IF ~connected
          THEN Raise("ssh_connect failed in firmware_is_same") /\ UNCHANGED <<events, banner>>
          ELSE /\ Emit("cat /etc/issue.net")
               /\ banner' = out
               /\ Return
    /\ UNCHANGED <<inputVars, monitorVars, mediaVars, consoleVars, bmcVars,
                   reach, fwResp, ver, isIpu>>
    /\ UNCHANGED otherVars

\* if not firmware_is_same(): logger.error_and_exit(...); else the flash is complete
EnsureFirmwareVerify ==
    /\ pc = "firmware_verify"
    /\ \E connected \in BOOLEAN, out \in IssueNetBanners :
          IF ~connected
          THEN Raise("ssh_connect failed in firmware_is_same") /\ UNCHANGED <<events, banner>>
          ELSE /\ Emit("cat /etc/issue.net")
               /\ banner' = out
               /\ IF ~firmware_is_same(target, out)
                  THEN ErrorAndExit("Mev firmware release is not the expected version")
                  ELSE Return
    /\ UNCHANGED <<inputVars, monitorVars, mediaVars, consoleVars, bmcVars,
                   reach, fwResp, ver, isIpu>>
    /\ UNCHANGED otherVars

-----------------------------------------------------------------------------
(* Two boot calls against one BMC.  IPUBMC.boot_iso_with_redfish keeps all *)
(* its state in locals and on the BMC and its console; nothing in it is    *)
(* shared between two calls but the BMC and the console files.  Each call  *)
(* s has its position and locals in sess[s]; the log and the clock of the  *)
(* single call are not kept here: the clock reading of the deadline check  *)
(* is an input, and turn is loop_count modulo 6.                           *)

\* what the single call of Spec uses and a boot call here leaves alone
soloVars == <<pc, stack, outcome, error, inputVars, events, monitorVars, mediaVars,
              httpServer, probeVars, ai>>

SessGoto(s, l) == sess' = [sess EXCEPT ![s].pc = l]

\* the call ends with an exception or in error_and_exit
SessEnd(s, e) == sess' = [sess EXCEPT ![s].pc = "done", ![s].error = e]

\* bmc.boot_iso_with_redfish(iso_path=iso_address) is called
SessStart(s) ==
    /\ sess[s].pc = "idle"
    /\ \E u \in {UrlA, UrlB} :
          sess' = [sess EXCEPT ![s].pc = "boot_iso_with_redfish", ![s].iso_path = u]
    /\ UNCHANGED <<soloVars, consoleVars, bmcVars>>

\* expected_size = url_get_size(iso_path); raise if it is None
SessBootSize(s) ==
    /\ sess[s].pc = "boot_iso_with_redfish"
    /\ \E head \in HeadResponses :
          IF url_get_size(head) = None
          THEN SessEnd(s, "failed to determine file size of URL")
          ELSE sess' = [sess EXCEPT ![s].pc = "_prepare_imc",
                                    ![s].expected_size = url_get_size(head)]
    /\ UNCHANGED <<soloVars, consoleVars, bmcVars>>

\* where a boot call goes on once the console session of position l is open
SessAfterConsole(l) ==
    CASE l = "_prepare_imc" -> "_restart_redfish"
      [] l = "_restart_redfish" -> "_create_imc_rsh"
      [] l = "_create_imc_rsh" -> "matching_url"
      [] l = "_restart_redfish_again" -> "_unset_bootsource_override"

\* self._prepare_imc(...), self._restart_redfish(), imc = self._create_imc_rsh()
\* and, after the reset and the sleep of five minutes, self._restart_redfish():
\* each opens a console session
SessConsole(s) ==
    /\ sess[s].pc \in {"_prepare_imc", "_restart_redfish", "_create_imc_rsh",
                      "_restart_redfish_again"}
    /\ \E connected \in BOOLEAN :
          IF connected
          THEN SessGoto(s, SessAfterConsole(sess[s].pc))
          ELSE SessEnd(s, "ssh_connect failed")
    /\ UNCHANGED <<soloVars, consoleVars, bmcVars>>

\* "if not matching_url(imc) or ...": imc.read_file("/work/url") on the open
\* session; without a match the right-hand side of the "or" is not evaluated
SessCheckMedia(s) ==
    /\ sess[s].pc = "matching_url"
    /\ SessGoto(s, IF matching_url(urlMarker, sess[s].iso_path)
                   THEN "same_size" ELSE "_cleanup_iso")
    /\ UNCHANGED <<soloVars, consoleVars, bmcVars>>

\* "... or not same_size(imc, expected_size)": the du on the open session, a
\* round trip after the one that read the marker
SessSameSize(s) ==
    /\ sess[s].pc = "same_size"
    /\ SessGoto(s, IF same_size(isoFile, Val(sess[s].expected_size))
                   THEN "write_url" ELSE "_cleanup_iso")
    /\ UNCHANGED <<soloVars, consoleVars, bmcVars>>

\* self._cleanup_iso()
SessCleanupIso(s) ==
    /\ sess[s].pc = "_cleanup_iso"
    /\ \E connected \in BOOLEAN :
          IF connected
          THEN isoFile' = None /\ SessGoto(s, "_insert_media")
          ELSE SessEnd(s, "ssh_connect failed") /\ UNCHANGED isoFile
    /\ UNCHANGED <<soloVars, urlMarker, bmcVars>>

\* _insert_media: self._requests_post(InsertMedia), then the wait is entered
SessInsertMedia(s) ==
    /\ sess[s].pc = "_insert_media"
    /\ \E accepted \in BOOLEAN :
          IF accepted
          THEN /\ transfer' = TRUE
               /\ vmInserted' = FALSE
               /\ vmImageName' = url_extract_filename(sess[s].iso_path)
          ELSE UNCHANGED <<transfer, vmInserted, vmImageName>>
    /\ SessGoto(s, "_wait_iso_downloaded")
    /\ UNCHANGED <<soloVars, consoleVars, bootOverride>>

\* _wait_iso_downloaded up to its loop: filename, imc = self._create_imc_rsh(),
\* loop_count = 0
SessWaitStart(s) ==
    /\ sess[s].pc = "_wait_iso_downloaded"
    /\ IF url_extract_filename(sess[s].iso_path) = None
       THEN SessEnd(s, "URL has not path name")
       ELSE \E connected \in BOOLEAN :
               IF connected
               THEN sess' = [sess EXCEPT ![s].pc = "wait_inserted", ![s].turn = 0]
               ELSE SessEnd(s, "ssh_connect failed")
    /\ UNCHANGED <<soloVars, consoleVars, bmcVars>>

\* "while not self._virtual_media_is_inserted(filename)": the GET of
\* VirtualMedia/1 and the loop condition made of its answer
SessWaitPoll(s) ==
    /\ sess[s].pc = "wait_inserted"
    /\ \E getOk \in BOOLEAN :
          IF ~getOk
          THEN SessEnd(s, "Request failed")
          ELSE IF ~wait_goes_on(VirtualMediaData, Val(url_extract_filename(sess[s].iso_path)),
                                isoFile, Val(sess[s].expected_size))
          THEN SessGoto(s, "write_url")
          ELSE SessGoto(s, "wait_sleep")
    /\ UNCHANGED <<soloVars, consoleVars, bmcVars>>

\* the body of the loop: time.sleep(10), during which the BMC may go on with
\* the transfer, then the deadline check, log_progress every sixth turn (its du
\* reads the console file as it is after the sleep) and loop_count += 1;
\* passed is what the deadline check finds on the clock
SessWaitTurn(s) ==
    /\ sess[s].pc = "wait_sleep"
    /\ \E f \in FileStates, flagged \in BOOLEAN :
          /\ IF transfer
             THEN f # None /\ (isoFile # None => Val(f) >= Val(isoFile))
             ELSE f = isoFile /\ ~flagged
          /\ isoFile' = f
          /\ vmInserted' = (vmInserted \/ flagged)
    /\ \E passed \in BOOLEAN :
          IF passed
          THEN SessEnd(s, "Timeout waiting for VirtualMedia")
          ELSE IF sess[s].turn = 0 /\ Val(sess[s].expected_size) = 0
          THEN SessEnd(s, "ZeroDivisionError")
          ELSE sess' = [sess EXCEPT ![s].pc = "wait_inserted",
                                    ![s].turn = (sess[s].turn + 1) % ProgressEvery]
    /\ UNCHANGED <<soloVars, urlMarker, vmImageName, transfer, bootOverride>>

\* imc.write("/work/url", iso_path)
SessWriteUrl(s) ==
    /\ sess[s].pc = "write_url"
    /\ urlMarker' = Some(sess[s].iso_path)
    /\ SessGoto(s, "_bootsource_override_cd")
    /\ UNCHANGED <<soloVars, isoFile, bmcVars>>

\* self._bootsource_override_cd() and, at the end of the call,
\* self._unset_bootsource_override(): PATCH, a failed request is only logged
SessPatchOverride(s) ==
    /\ sess[s].pc \in {"_bootsource_override_cd", "_unset_bootsource_override"}
    /\ \E accepted \in BOOLEAN :
          bootOverride' = IF ~accepted THEN bootOverride
                          ELSE IF sess[s].pc = "_bootsource_override_cd" THEN "Once"
                          ELSE "Disabled"
    /\ SessGoto(s, IF sess[s].pc = "_bootsource_override_cd" THEN "_reboot" ELSE "done")
    /\ UNCHANGED <<soloVars, consoleVars, vmInserted, vmImageName, transfer>>

\* self._reboot(): POST Manager.Reset, a failed request is only logged; the
\* call then sleeps five minutes before it opens the console again
SessReboot(s) ==
    /\ sess[s].pc = "_reboot"
    /\ SessGoto(s, "_restart_redfish_again")
    /\ UNCHANGED <<soloVars, consoleVars, bmcVars>>

-----------------------------------------------------------------------------
(* AssistedClientAutomation (src/assistedInstaller.py): one call per       *)
(* behaviour, its position and locals in ai.  The assisted service is the  *)
(* environment: what it lists and whether a request raises are inputs of   *)
(* each step.  Loops without a bound in the code run up to MaxTries turns. *)

\* turns the model follows a loop that the code does not bound
MaxTries == 3

\* retries, timeout = 25, 30
Retries == 25

\* cluster statuses of the assisted service that the calls may observe
ClusterStates == {"insufficient", "ready", "preparing-for-installation", "installing", "error"}

\* everything but ai
nonAiVars == <<pc, stack, outcome, error, inputVars, events, monitorVars, mediaVars,
               consoleVars, bmcVars, httpServer, probeVars, sess>>

\* the call returns to its caller
AiReturn(a) == [a EXCEPT !.pc = "done", !.outcome = "returned"]

\* the call ends with an exception ("raised") or in sys.exit ("exit")
AiEnd(a, kind, e) == [a EXCEPT !.pc = "done", !.outcome = kind, !.error = e]

\* cluster_state(cluster_name), given whether get_cluster_info_all got a
\* valid list, how many listed clusters have the name, and the status of the
\* one that has: the record a, with cs set, or ended
cluster_state(a, listOk, matching, status) ==
    IF ~listOk THEN AiEnd(a, "raised", "get_cluster_info_all failed")
    ELSE IF matching = 0 THEN AiEnd(a, "exit", "couldn't find cluster")
    ELSE IF matching > 1 THEN AiEnd(a, "exit", "Unexpected number of matching clusters")
    ELSE [a EXCEPT !.cs = status]

\* the start requested in every state but installing
should_start_unless_installing(cs) == cs # "installing"

\* if cs == "ready" or cs == "error"
should_start(cs) == cs = "ready" \/ cs = "error"

\* ensure_cluster_installing(cluster_name) or _start_until_success(cluster_name)
\* is called
AiCallInstalling ==
    /\ ai.pc = "idle"
    /\ \E o \in {"ensure_cluster_installing", "_start_until_success"} :
          ai' = [ai EXCEPT !.op = o,
                           !.pc = IF o = "_start_until_success" THEN o ELSE "wait_cluster_ready"]
    /\ UNCHANGED nonAiVars

\* one turn of wait_cluster_ready: ready ends the loop and
\* _start_until_success is entered; any other state sleeps 10 s
AiWaitReady ==
    /\ ai.pc = "wait_cluster_ready"
    /\ \E listOk \in BOOLEAN, matching \in 0..2, status \in ClusterStates :
          LET a == cluster_state(ai, listOk, matching, status)
          IN  IF a.pc = "done" THEN ai' = a
              ELSE IF a.cs = "ready"
              THEN ai' = [a EXCEPT !.pc = "_start_until_success", !.tries = 0, !.cs = ""]
              ELSE ai.tries < MaxTries /\ ai' = [a EXCEPT !.tries = ai.tries + 1]
    /\ UNCHANGED nonAiVars

\* one turn of _start_until_success up to its branch: cs = cluster_state(...);
\* installing breaks out of the loop and the call returns; any state that is
\* not started from sleeps 10 s
AiStartPoll ==
    /\ ai.pc = "_start_until_success"
    /\ \E listOk \in BOOLEAN, matching \in 0..2, status \in ClusterStates :
          LET a == cluster_state(ai, listOk, matching, status)
          IN  IF a.pc = "done" THEN ai' = a
              ELSE IF should_start(a.cs) THEN ai' = [a EXCEPT !.pc = "start_cluster"]
              ELSE IF a.cs = "installing" THEN ai' = AiReturn(a)
              ELSE ai.tries < MaxTries /\ ai' = [a EXCEPT !.tries = ai.tries + 1]
    /\ UNCHANGED nonAiVars

\* try: self.start_cluster(cluster_name) except Exception: pass; time.sleep(10)
AiStartCluster ==
    /\ ai.pc = "start_cluster"
    /\ ai.tries < MaxTries
    /\ \E raised \in BOOLEAN :
          ai' = [ai EXCEPT !.pc = "_start_until_success", !.calls = ai.calls + 1,
                           !.raised = raised, !.tries = ai.tries + 1]
    /\ UNCHANGED nonAiVars

\* ensure_cluster_deleted(name) is called; the cluster is there or not
AiCallEnsureDeleted ==
    /\ ai.pc = "idle"
    /\ \E e \in BOOLEAN :
          ai' = [ai EXCEPT !.op = "ensure_cluster_deleted", !.pc = "ensure_cluster_deleted",
                           !.exists = e]
    /\ UNCHANGED nonAiVars

\* while self.cluster_exists(name): get_cluster_info_all raises when it got no
\* valid list in its five attempts
AiDeletedCheck ==
    /\ ai.pc = "ensure_cluster_deleted"
    /\ \E listOk \in BOOLEAN :
          ai' = IF ~listOk THEN AiEnd(ai, "raised", "get_cluster_info_all failed")
                ELSE IF ai.exists THEN [ai EXCEPT !.pc = "delete_cluster"]
                ELSE AiReturn(ai)
    /\ UNCHANGED nonAiVars

\* a delete_cluster whose exception leaves the function
AiDeleteCluster_raises ==
    /\ ai.pc = "delete_cluster"
    /\ ai.tries < MaxTries
    /\ \E raised \in BOOLEAN, gone \in BOOLEAN :
          ai' = IF raised
                THEN AiEnd([ai EXCEPT !.calls = ai.calls + 1, !.raised = TRUE,
                                      !.exists = ai.exists /\ ~gone],
                           "raised", "delete_cluster failed")
                ELSE [ai EXCEPT !.pc = "ensure_cluster_deleted", !.calls = ai.calls + 1,
                                !.raised = FALSE, !.exists = ai.exists /\ ~gone,
                                !.tries = ai.tries + 1]
    /\ UNCHANGED nonAiVars

\* try: self.delete_cluster(name) except Exception: log; time.sleep(5).  Whether
\* the request raised and whether the cluster is gone after it are the service's.
AiDeleteCluster ==
    /\ ai.pc = "delete_cluster"
    /\ ai.tries < MaxTries
    /\ \E raised \in BOOLEAN, gone \in BOOLEAN :
          ai' = [ai EXCEPT !.pc = "ensure_cluster_deleted", !.calls = ai.calls + 1,
                           !.raised = raised, !.exists = ai.exists /\ ~gone,
                           !.tries = ai.tries + 1]
    /\ UNCHANGED nonAiVars

\* range(retries) with one attempt more
attempts_exhausted_late(n) == n = Retries + 1

\* for _ in range(retries): the loop is exhausted after n attempts
attempts_exhausted(n) == n = Retries

\* download_iso_with_retry(infra_env, path) up to its loop:
\* logger.info(self.info_iso(infra_env, {})), outside any try
AiCallDownloadIso ==
    /\ ai.pc = "idle"
    /\ \E ok \in BOOLEAN :
          ai' = IF ok
                THEN [ai EXCEPT !.op = "download_iso_with_retry", !.pc = "download_iso"]
                ELSE AiEnd([ai EXCEPT !.op = "download_iso_with_retry"], "raised",
                           "info_iso failed")
    /\ UNCHANGED nonAiVars

\* one turn of the for loop: download_iso; success breaks and the function
\* returns; an exception sleeps 30 s; when the range is exhausted the else
\* branch logs the error and the function returns
AiDownloadAttempt ==
    /\ ai.pc = "download_iso"
    /\ \E ok \in BOOLEAN :
          ai' = IF ok
                THEN AiReturn([ai EXCEPT !.calls = ai.calls + 1, !.raised = FALSE,
                                         !.downloaded = TRUE])
                ELSE IF attempts_exhausted(ai.tries + 1)
                THEN AiReturn([ai EXCEPT !.calls = ai.calls + 1, !.raised = TRUE,
                                         !.tries = ai.tries + 1, !.errorLogged = TRUE])
                ELSE [ai EXCEPT !.calls = ai.calls + 1, !.raised = TRUE,
                                !.tries = ai.tries + 1]
    /\ UNCHANGED nonAiVars

-----------------------------------------------------------------------------

Next ==
    \/ CallVersion \/ VersionProbe \/ RedfishVersion \/ VersionSsh
    \/ CallIsIpu \/ IsIpuProbe \/ IsIpuName \/ IsIpuSsh
    \/ CallStart \/ StartFirst \/ StartSecond \/ StartUnexpected
    \/ RedfishBootIpu \/ BootIsoWait \/ StartReturn
    \/ MonitorStart \/ MonitorPoll \/ MonitorReboot \/ MonitorConnect
    \/ CallPostBoot \/ PostBootReturn
    \/ BootSize \/ BootPrepareImc \/ BootRestartRedfish \/ BootCheckMedia
    \/ BootCleanupIso \/ BootInsertMedia \/ WaitIsoStart \/ WaitIsoPoll
    \/ BootWriteUrl \/ BootOverrideCd \/ BootReboot \/ BootRestartRedfishAgain
    \/ BootUnsetOverride
    \/ CallEnsureFirmware \/ EnsureFirmwareCheck \/ EnsureFirmwareFlash
    \/ EnsureFirmwareColdBoot \/ EnsureFirmwareVerify

Spec == Init /\ [][Next]_vars

\* a step of one of the two boot calls
NextTwo ==
    \E s \in Sessions :
        \/ SessStart(s) \/ SessBootSize(s) \/ SessConsole(s) \/ SessCheckMedia(s)
        \/ SessSameSize(s) \/ SessCleanupIso(s) \/ SessInsertMedia(s) \/ SessWaitStart(s)
        \/ SessWaitPoll(s) \/ SessWaitTurn(s) \/ SessWriteUrl(s) \/ SessPatchOverride(s)
        \/ SessReboot(s)

\* two boot calls interleaved, from the same initial BMC and console states
TwoSessions == Init /\ [][NextTwo]_vars

\* a step of the AssistedClientAutomation call
NextAssisted ==
    \/ AiCallInstalling \/ AiWaitReady \/ AiStartPoll \/ AiStartCluster
    \/ AiCallEnsureDeleted \/ AiDeletedCheck \/ AiDeleteCluster
    \/ AiCallDownloadIso \/ AiDownloadAttempt

\* the console and the BMC play no part in these calls
InitAssisted == Init /\ urlMarker = None /\ isoFile = None /\ ~vmInserted

AssistedSpec == InitAssisted /\ [][NextAssisted]_vars

-----------------------------------------------------------------------------
(* Reading the log                                                         *)

\* how many times e was issued
Count(e) == Cardinality({i \in DOMAIN events : events[i] = e})

\* position of the first e in the log, 0 if there is none
Pos(e) ==
    IF Count(e) = 0 THEN 0
    ELSE CHOOSE i \in DOMAIN events :
            events[i] = e /\ \A j \in DOMAIN events : events[j] = e => i <= j

\* the monitor ended in its Failed outcome
MonitorFailed == outcome = "exit" /\ error = "Too many failures trying to get ACC up"

-----------------------------------------------------------------------------
(* Properties                                                              *)

\* C1 (as stated): when the monitor ends in Failed, it has counted exactly 5
\* escalations and has issued exactly 5 console reboots.
C1_FiveReboots ==
    MonitorFailed => failures = 5 /\ Count("imc reboot") = 5

\* C1 (amended): when the monitor ends in Failed, no ping was answered, it has
\* counted exactly 5 escalations and has issued exactly 4 console reboots: the
\* fifth escalation ends the run before any reboot.
C1_FiveEscalationsFourReboots ==
    MonitorFailed => failures = 5 /\ Count("imc reboot") = 4 /\ Count("acc uname -a") = 0

C1_Witness == MonitorFailed /\ failures = 5 /\ op = "start"

\* C2: an install call that has ended, however it ended, and that issued the
\* {Once, Cd} PATCH has issued the {Disabled} PATCH exactly once.
C2_OverrideClearedOnEveryExit ==
    (op = "start" /\ pc = "done" /\ Count("PATCH Once Cd") > 0)
        => Count("PATCH Disabled") = 1

\* C3 (as stated): the override is cleared only after the media was ensured,
\* the override set, and the liveness monitor has run and finished.
C3_ClearAfterMonitor ==
    (op = "start" /\ Count("PATCH Disabled") > 0)
        => /\ 0 < Pos("write /work/url")
           /\ Pos("write /work/url") < Pos("PATCH Once Cd")
           /\ Pos("PATCH Once Cd") < Pos("wait_for_acc")
           /\ Pos("wait_for_acc") < Pos("acc uname -a")
           /\ Pos("acc uname -a") < Pos("PATCH Disabled")

\* C3 (amended): in an install run the media is ensured inserted (the marker
\* written) before the override is set, the override is set before it is
\* cleared, and the liveness monitor starts only after the override has been
\* cleared, with the 1200 s budget; each of the steps happens once.
C3_ClearBeforeMonitor ==
    op = "start" =>
        /\ Count("PATCH Once Cd") > 0
              => 0 < Pos("write /work/url") /\ Pos("write /work/url") < Pos("PATCH Once Cd")
        /\ Count("PATCH Disabled") > 0
              => 0 < Pos("PATCH Once Cd") /\ Pos("PATCH Once Cd") < Pos("PATCH Disabled")
        /\ Count("wait_for_acc") > 0
              => /\ 0 < Pos("PATCH Disabled") /\ Pos("PATCH Disabled") < Pos("wait_for_acc")
                 /\ budget = 1200
                 /\ Count("write /work/url") = 1
                 /\ Count("PATCH Once Cd") = 1
                 /\ Count("PATCH Disabled") = 1
                 /\ Count("wait_for_acc") = 1

C3_Witness == op = "start" /\ outcome = "returned" /\ Count("acc uname -a") = 1

\* C4: after an InsertMedia, the installer goes on to write the marker and set
\* the override only when acc-os.iso on the console has the expected size.
C4_WaitEndsOnSize ==
    (Count("POST InsertMedia") > 0 /\ pc \in {"write_url", "_bootsource_override_cd"})
        => isoFile = expected_size

\* C5: a call that found the marker equal to the URL and acc-os.iso of the
\* expected size issues no InsertMedia and does not delete the file.
C5_SkipOnMatch ==
    (urlMatched /\ sizeMatched)
        => /\ Count("POST InsertMedia") = 0
           /\ Count("rm acc-os.iso") = 0
           /\ pc \notin {"_cleanup_iso", "_insert_media", "_wait_iso_downloaded", "wait_inserted"}
           /\ isoFile = expected_size

C5_Witness ==
    urlMatched /\ sizeMatched /\ pc = "boot_command_sent" /\ urlMarker = Some(iso_path)

\* positions of boot_iso_with_redfish after _insert_media has posted
AfterInsert ==
    {"_wait_iso_downloaded", "wait_inserted", "write_url", "_bootsource_override_cd",
     "_reboot", "_restart_redfish_again", "_unset_bootsource_override", "boot_command_sent"}

\* C6: a call that found the marker equal to the URL but acc-os.iso missing or
\* of another size issues InsertMedia at most once and never before the file
\* was deleted; once it is past the insert step it has deleted the file once
\* and then issued InsertMedia once.  (The one way out between the check and
\* InsertMedia is a console session that cannot be opened for the delete.)
C6_ReinsertOnceOnSizeMismatch ==
    (urlMatched /\ ~sizeMatched)
        => /\ Count("POST InsertMedia") <= 1
           /\ Count("rm acc-os.iso") <= 1
           /\ Count("POST InsertMedia") = 1
                 => 0 < Pos("rm acc-os.iso") /\ Pos("rm acc-os.iso") < Pos("POST InsertMedia")
           /\ pc = "_cleanup_iso" => Count("rm acc-os.iso") = 0
           /\ pc = "_insert_media" => Count("rm acc-os.iso") = 1 /\ isoFile = None
           /\ (pc \in AfterInsert \/ (pc = "done" /\ error # "ssh_connect failed in _cleanup_iso"))
                 => Count("rm acc-os.iso") = 1 /\ Count("POST InsertMedia") = 1

C6_Witness ==
    /\ urlMatched /\ ~sizeMatched
    /\ pc = "boot_command_sent"
    /\ Count("POST InsertMedia") = 1

\* the HEAD request produced no usable Content-Length: it failed, the header
\* is missing, or the header is not the decimal form of a size >= 0
NoUsableLength(head) ==
    \/ ~head.ok
    \/ head.header = None
    \/ head.header \in {Some(<<"x">>), Some(<<"-", "1">>)}

\* C7: when the HEAD request of a boot yields no usable Content-Length, the
\* call has ended with the size error and has issued nothing after the HEAD:
\* no console preparation, Redfish restart, delete, InsertMedia, PATCH or reset.
C7_SizeUnknownFailsFirst ==
    (headResp # None /\ NoUsableLength(Val(headResp)))
        => /\ pc = "done"
           /\ outcome = "raised"
           /\ error = "failed to determine file size of URL"
           /\ events[Len(events)] = "HEAD iso"
           /\ \A e \in {"prepare_imc", "restart redfish", "rm acc-os.iso", "POST InsertMedia",
                        "write /work/url", "PATCH Once Cd", "POST Manager.Reset",
                        "PATCH Disabled"} : Count(e) = 0

C7_Witness ==
    /\ Count("HEAD iso") = 1
    /\ headResp = Some([ok |-> TRUE, header |-> Some(<<"-", "1">>)])
    /\ outcome = "raised"

\* C8: a version() call that returned gives the version matched in the
\* manager resource and has not opened the console session when the probe
\* said reachable, and the token of the console banner, without any GET of the
\* manager resource, when the probe said unreachable.
C8_VersionChannel ==
    (op = "version" /\ outcome = "returned")
        => IF reach
           THEN /\ Count("ssh /etc/issue") = 0
                /\ Count("GET Managers/1") = 1
                /\ fwResp # None
                /\ Some(ver) = MevVersionMatch(Val(fwResp))
           ELSE /\ Count("GET Managers/1") = 0
                /\ Count("ssh /etc/issue") = 1
                /\ Some(ver) = IssueVersionMatch(banner)

C8_Witness == op = "version" /\ outcome = "returned" /\ ~reach /\ ver = V180

\* C9: in a run of ensure_firmware whose is_ipu() classification is false,
\* the call has ended in an error once is_ipu is over, and neither the
\* banner check nor the flash nor the cold boot has happened.
C9_NoFlashUnlessIpu ==
    (op = "ensure_firmware" /\ ~isIpu
       /\ pc \notin {"is_ipu", "redfish_name", "is_ipu_ssh", "ensure_firmware"})
        => /\ pc = "done"
           /\ outcome \in {"raised", "exit"}
           /\ Count("cat /etc/issue.net") = 0
           /\ Count("firmware up") = 0
           /\ Count("cold_boot") = 0

C9_Witness ==
    /\ op = "ensure_firmware" /\ ~isIpu /\ force
    /\ outcome = "raised" /\ error = "AssertionError"

\* C10: without force, a banner that contains the target makes
\* ensure_firmware return with no flash and no cold boot; with force, a call
\* that got past the is_ipu assertion flashes, whatever the banner holds, and
\* does not read the banner before the flash.
C10_SkipWhenSame ==
    op = "ensure_firmware" =>
        /\ (~force /\ Count("cat /etc/issue.net") = 1 /\ Contains(banner, target))
              => /\ pc = "done" /\ outcome = "returned"
                 /\ Count("firmware up") = 0
                 /\ Count("cold_boot") = 0
        /\ (force /\ isIpu /\ pc \in {"cold_boot", "firmware_verify", "done"})
              => /\ Count("firmware up") = 1
                 /\ Pos("cat /etc/issue.net") = 0 \/ Pos("firmware up") < Pos("cat /etc/issue.net")

C10_Witness ==
    /\ op = "ensure_firmware" /\ ~force /\ outcome = "returned"
    /\ target = V250
    /\ banner = V250 \o <<".", "1", "1", "7", "\n">>

\* the last entry of the log is e
LastEvent(e) == events # <<>> /\ events[Len(events)] = e

\* C11: in ensure_firmware the cold boot happens only after the flash and the
\* banner is read again only after the cold boot, each once; a failed flash
\* ends the process with no cold boot and no further read; a call that flashed
\* returns only when the banner read after the cold boot contains the target,
\* and ends the process when that banner does not contain it.
C11_FlashColdBootVerify ==
    op = "ensure_firmware" =>
        /\ Count("firmware up") <= 1 /\ Count("cold_boot") <= 1
        /\ Count("cold_boot") = 1
              => 0 < Pos("firmware up") /\ Pos("firmware up") < Pos("cold_boot")
        /\ \A i \in DOMAIN events :
              (events[i] = "cat /etc/issue.net" /\ 0 < Pos("firmware up") /\ Pos("firmware up") < i)
                  => 0 < Pos("cold_boot") /\ Pos("cold_boot") < i /\ i = Len(events)
        /\ error = "Failed to flash new firmware"
              => outcome = "exit" /\ Count("cold_boot") = 0 /\ LastEvent("firmware up")
        /\ (Count("firmware up") = 1 /\ outcome = "returned")
              => /\ Count("cold_boot") = 1
                 /\ LastEvent("cat /etc/issue.net")
                 /\ Contains(banner, target)
        /\ (pc = "done" /\ Count("cold_boot") = 1 /\ LastEvent("cat /etc/issue.net")
               /\ ~Contains(banner, target))
              => /\ outcome = "exit"
                 /\ error = "Mev firmware release is not the expected version"

C11_Witness ==
    /\ op = "ensure_firmware" /\ outcome = "returned"
    /\ Count("firmware up") = 1 /\ Count("cold_boot") = 1
    /\ LastEvent("cat /etc/issue.net")
    /\ target = V180

\* what start does after the version check: the requests and commands of
\* _boot_iso as they appear in the log
BootEvents ==
    {"HEAD iso", "prepare_imc", "restart redfish", "rm acc-os.iso", "POST InsertMedia",
     "write /work/url", "PATCH Once Cd", "POST Manager.Reset", "PATCH Disabled",
     "wait_for_acc", "imc reboot", "acc uname -a"}

\* where start is while its version check is not yet decided, or has failed
VersionCheckPositions ==
    {"version", "redfish_version", "version_ssh", "start_first", "start_second",
     "start_unexpected", "done"}

\* C12: in a run of start whose last version() result is neither 1.8.0 nor
\* 2.0.0 (or that has no result yet), start is still in its version check or
\* has ended in an error, and no boot action has happened: no HEAD, console
\* preparation, InsertMedia, PATCH, reset, HTTP server or liveness wait; and
\* a start that ended with "Unexpected version" has done none of them either.
C12_BootOnlyOnSupportedVersion ==
    op = "start" =>
        /\ ver \notin {V180, V200}
              => /\ pc \in VersionCheckPositions
                 /\ pc = "done" => outcome \in {"exit", "raised"}
                 /\ \A e \in BootEvents : Count(e) = 0
                 /\ httpServer = "off"
        /\ error = "Unexpected version"
              => /\ outcome = "exit"
                 /\ \A e \in BootEvents : Count(e) = 0
                 /\ httpServer = "off"

C12_Witness ==
    /\ op = "start" /\ outcome = "exit" /\ error = "Unexpected version"
    /\ ver = V250 /\ Count("GET Managers/1") = 3

\* C13: in a run of the monitor no escalation is counted while less than the
\* budget has elapsed (20 s per unanswered poll); a ping answered before the
\* first escalation ends the loop with zero escalations and zero console
\* reboots and with time left on the countdown, and the session to the card
\* with its one diagnostic command comes only after the loop has ended
\* (never while the monitor is still polling), once, as the last step.
C13_PingBeforeExpiryConnects ==
    (op \in {"start", "post_boot"} /\ Count("wait_for_acc") = 1) =>
        /\ (Count("imc reboot") = 0 /\ PingSleep * polls < budget) => failures = 0
        /\ failures = 0 => Count("imc reboot") = 0
        /\ Count("acc uname -a") <= 1
        /\ pc \in {"wait_ping", "imc_reboot", "acc_connect"} => Count("acc uname -a") = 0
        /\ (failures = 0 /\ (pc = "acc_connect" \/ Count("acc uname -a") = 1))
              => /\ timeout = budget - PingSleep * polls
                 /\ timeout > 0
        /\ Count("acc uname -a") = 1
              => /\ LastEvent("acc uname -a")
                 /\ Pos("wait_for_acc") < Pos("acc uname -a")
                 /\ outcome = "returned" \/ pc \in {"start_return", "post_boot_return"}

\* the ping is answered on the third poll of an install, 40 s into the 1200 s
C13_Witness ==
    /\ op = "start" /\ outcome = "returned"
    /\ budget = 1200 /\ polls = 2 /\ timeout = 1160
    /\ failures = 0 /\ Count("imc reboot") = 0
    /\ Count("acc uname -a") = 1

\* the unanswered polls the monitor can still make: the rest of the current
\* countdown and a full 240 s countdown for each escalation still allowed
MonitorPollsLeft ==
    IF pc = "wait_ping"
    THEN (timeout + PingSleep - 1) \div PingSleep
            + (MaxFailures - 1 - failures) * (RetryBudget \div PingSleep)
    ELSE IF pc = "imc_reboot"
    THEN (MaxFailures - failures) * (RetryBudget \div PingSleep)
    ELSE 0

\* the turns the media wait can still make: those whose sleep ends before
\* the deadline, and the one that finds the deadline passed
WaitTurnsLeft ==
    IF pc # "wait_inserted" THEN 0
    ELSE IF now >= InsertDeadline THEN 1
    ELSE (InsertDeadline - now + InsertSleep - 1) \div InsertSleep + 1

\* C14: both polling loops are bounded.  While the monitor polls, time is
\* left on its countdown and fewer than 5 escalations are counted, and the
\* number of polls it can still make, at most 108, goes down with every poll
\* and never up with a console reboot; while the media wait polls, fewer than
\* 360 turns are counted, the clock is at least the time slept, the turns
\* left, at most 361, go down with every turn, a wait whose clock is past the
\* 3600 s deadline is in its last turn, and the turn that finds the deadline
\* passed raises the timeout error.
C14_LoopsBounded ==
    /\ [](pc = "wait_ping"
             => /\ timeout > 0 /\ failures < MaxFailures
                /\ MonitorPollsLeft >= 1
                /\ MonitorPollsLeft <= DefaultBudget \div PingSleep
                                          + (MaxFailures - 1) * (RetryBudget \div PingSleep))
    /\ [](pc = "wait_inserted"
             => /\ loop_count < InsertDeadline \div InsertSleep
                /\ now >= InsertSleep * loop_count
                /\ WaitTurnsLeft >= 1
                /\ WaitTurnsLeft <= InsertDeadline \div InsertSleep + 1)
    /\ [](error = "Timeout waiting for VirtualMedia"
             => outcome = "raised" /\ now >= InsertDeadline)
    /\ [][pc = "wait_ping" => MonitorPollsLeft' < MonitorPollsLeft]_vars
    /\ [][pc = "imc_reboot" => MonitorPollsLeft' <= MonitorPollsLeft]_vars
    /\ [][pc = "wait_inserted" => WaitTurnsLeft' < WaitTurnsLeft]_vars
    /\ [][(pc = "wait_inserted" /\ now >= InsertDeadline) => pc' # "wait_inserted"]_vars

\* the media wait has ended with its timeout error on the turn that reached
\* the deadline
C14_Witness ==
    /\ outcome = "raised" /\ error = "Timeout waiting for VirtualMedia"
    /\ now = InsertDeadline
    /\ Count("POST InsertMedia") = 1

\* C15: a failed GET of the virtual-media resource during the media wait
\* does not end the run: a run that ended in the wait (nothing was issued
\* after the InsertMedia) has not ended with "Request failed" while the
\* 3600 s deadline had not passed.
C15_FailedPollRetried ==
    (pc = "done" /\ LastEvent("POST InsertMedia") /\ error = "Request failed")
        => now >= InsertDeadline

\* C16: a failed GET of a probe never ends the process: no call of version()
\* or is_ipu() ends by exit with "Request failed", also not when the
\* reachability probe had succeeded and the GET of the manager or the root
\* resource is the one that fails.
C16_ProbeGetFailureIsSoft ==
    (op \in {"version", "is_ipu"} /\ pc = "done" /\ reach
       /\ (LastEvent("GET Managers/1") \/ LastEvent("GET /redfish/v1/")))
        => ~(outcome = "exit" /\ error = "Request failed")

\* C17: a POST or PATCH never ends the call and never changes what comes
\* next, whether the BMC accepted it or not: the step after InsertMedia is the
\* media wait, after the {Once, Cd} PATCH the reset, after the reset the
\* Redfish restart, after the {Disabled} PATCH the return of the boot call;
\* the request itself changes nothing of the controller but its log.
C17_FailedWriteNotFatal ==
    [][/\ pc = "_insert_media" => pc' = "_wait_iso_downloaded"
       /\ pc = "_bootsource_override_cd" => pc' = "_reboot"
       /\ pc = "_reboot" => pc' = "_restart_redfish_again"
       /\ pc = "_unset_bootsource_override" => pc' = "boot_command_sent"
       /\ pc \in {"_insert_media", "_bootsource_override_cd", "_reboot",
                   "_unset_bootsource_override"}
             => /\ outcome' = "none" /\ error' = "" /\ stack' = stack
                /\ UNCHANGED <<inputVars, monitorVars, mediaVars, consoleVars, probeVars>>
                /\ Len(events') = Len(events) + 1]_vars

\* neither the InsertMedia nor the {Once, Cd} PATCH was accepted, and the
\* call has gone through the media wait and is about to reset
C17_Witness ==
    /\ pc = "_reboot"
    /\ Count("POST InsertMedia") = 1 /\ ~transfer
    /\ Count("PATCH Once Cd") = 1 /\ bootOverride = "Disabled"

\* an InsertMedia of call s is outstanding: posted, and its wait not yet ended
Outstanding(s) == sess[s].pc \in {"_wait_iso_downloaded", "wait_inserted", "wait_sleep"}

\* C18: of the boot calls that run against the one BMC, at most one has an
\* InsertMedia outstanding at any time.
C18_OneInsertOutstanding ==
    Cardinality({s \in Sessions : Outstanding(s)}) <= 1

\* the positions from the call of boot_iso_with_redfish to the end of the
\* with block of _redfish_boot_ipu
BootCallPositions ==
    {"boot_iso_with_redfish", "_prepare_imc", "_restart_redfish", "check_media",
     "_cleanup_iso", "_insert_media", "_wait_iso_downloaded", "wait_inserted", "write_url",
     "_bootsource_override_cd", "_reboot", "_restart_redfish_again",
     "_unset_bootsource_override", "boot_command_sent"}

\* C19: with a local ISO the HTTP server is on at every position of the boot
\* call, and it is off everywhere else: before the call, once
\* _redfish_boot_ipu has ended, and in every run that has ended, whether it
\* returned, raised or ended the process; it is never on for an http source.
C19_HttpServerScoped ==
    /\ (pc \in BootCallPositions /\ ~is_http_url(iso)) => httpServer = "on"
    /\ pc \notin BootCallPositions => httpServer = "off"
    /\ httpServer = "on" => op = "start" /\ ~is_http_url(iso)

\* a boot from a local ISO that ended the process inside the media wait
C19_Witness ==
    /\ op = "start" /\ iso = LocalIso
    /\ outcome = "exit" /\ error = "Request failed"
    /\ LastEvent("POST InsertMedia")
    /\ httpServer = "off"

\* C20: when version() found Redfish unreachable and the console gave no
\* version (the session could not be opened, or /etc/issue holds no
\* "Version: " token), the call has raised "Failed to detect imc version" and
\* the run is over: start makes no further probe and no boot action; and a
\* version() that returned never returned the empty string.
C20_VersionUnavailableRaises ==
    /\ (op \in {"version", "start"} /\ ~reach /\ LastEvent("ssh /etc/issue")
          /\ IssueVersionMatch(banner) = None)
          => /\ pc = "done"
             /\ outcome = "raised"
             /\ error = "Failed to detect imc version"
             /\ \A e \in BootEvents : Count(e) = 0
    /\ (op = "version" /\ outcome = "returned") => ver # <<>>
    /\ (op = "start" /\ pc \in BootCallPositions) => ver # <<>>

\* start ended by the exception of its first version(): Redfish unreachable,
\* the console session opened, the banner without a version token
C20_Witness ==
    /\ op = "start" /\ outcome = "raised" /\ error = "Failed to detect imc version"
    /\ ~reach /\ banner # <<>>
    /\ Count("ssh /etc/issue") = 1 /\ Count("GET Systems/1") = 1

\* C21: an is_ipu() call that returned gives, when the probe said reachable,
\* whether the Name of the root resource contains "Intel IPU", without any
\* console session, and, when the probe said unreachable, whether the console
\* probe gave a version (the session opened and /etc/issue holds a token),
\* without any GET of the root resource.
C21_IsIpuIff ==
    (op = "is_ipu" /\ outcome = "returned")
        => IF reach
           THEN /\ Count("ssh /etc/issue") = 0
                /\ Count("GET /redfish/v1/") = 1
                /\ fwResp # None
                /\ isIpu <=> Contains(Val(fwResp), IntelIpu)
           ELSE /\ Count("GET /redfish/v1/") = 0
                /\ Count("ssh /etc/issue") = 1
                /\ isIpu <=> (IssueVersionMatch(banner) # None)

C21_Witness ==
    /\ op = "is_ipu" /\ outcome = "returned"
    /\ reach /\ isIpu /\ Count("GET /redfish/v1/") = 1

\* the least n with n * d >= t
CeilDiv(t, d) == (t + d - 1) \div d

\* C22: the monitor is started with a budget of 1200 s (install) or 300 s
\* (post_boot) and takes 20 s off the countdown per unanswered poll.  An
\* escalation is counted after exactly ceil(budget / 20) unanswered polls
\* when it is the first, and after exactly 12 when it is a later one; while
\* the monitor polls, the console has been rebooted once per escalation and
\* the countdown is what the last start (the budget, or 240 s after a
\* reboot) leaves after the unanswered polls since.
C22_PollCounts ==
    (op \in {"start", "post_boot"} /\ Count("wait_for_acc") = 1) =>
        /\ budget = (IF op = "start" THEN DefaultBudget ELSE PostBootBudget)
        /\ pc = "wait_ping"
              => /\ timeout = (IF failures = 0 THEN budget ELSE RetryBudget) - PingSleep * polls
                 /\ timeout > 0
                 /\ Count("imc reboot") = failures
        /\ (pc = "imc_reboot" \/ MonitorFailed)
              => /\ polls = (IF failures = 1 THEN CeilDiv(budget, PingSleep)
                             ELSE CeilDiv(RetryBudget, PingSleep))
                 /\ CeilDiv(RetryBudget, PingSleep) = 12
                 /\ timeout <= 0
                 /\ Count("imc reboot") = failures - 1

\* the second escalation of a post_boot monitor: 15 polls, a reboot, 12 polls
C22_Witness ==
    /\ op = "post_boot" /\ pc = "imc_reboot"
    /\ failures = 2 /\ polls = 12 /\ Count("imc reboot") = 1

\* C23: in a run of post_boot the first two commands are rmmod idpf and then
\* modprobe idpf on the card's host, each once; the monitor starts only after
\* both, once, with the 300 s budget; and post_boot returns only after the
\* monitor ended connected, the diagnostic command being the last step.
C23_PostBootOrder ==
    op = "post_boot" =>
        /\ Count("rmmod idpf") <= 1 /\ Count("modprobe idpf") <= 1
        /\ Count("modprobe idpf") = 1
              => Pos("rmmod idpf") = 1 /\ Pos("modprobe idpf") = 2
        /\ Count("wait_for_acc") > 0
              => /\ Count("wait_for_acc") = 1
                 /\ Pos("rmmod idpf") = 1 /\ Pos("modprobe idpf") = 2
                 /\ Pos("wait_for_acc") = 3
                 /\ budget = PostBootBudget
        /\ pc = "_wait_for_acc_with_retry" => timeout = PostBootBudget
        /\ (outcome = "returned" \/ pc = "post_boot_return")
              => /\ Count("acc uname -a") = 1
                 /\ LastEvent("acc uname -a")
                 /\ Pos("wait_for_acc") < Pos("acc uname -a")

\* post_boot returned after one escalation of its monitor
C23_Witness ==
    /\ op = "post_boot" /\ outcome = "returned"
    /\ failures = 1 /\ Count("imc reboot") = 1 /\ Count("acc uname -a") = 1

\* C24: the marker file changes only in the step that writes iso_path to it,
\* and the call is at that step only after a media check that found marker
\* and size matching (no InsertMedia) or after an InsertMedia whose wait saw
\* the image inserted; a call whose wait ended with the timeout error wrote
\* no marker and issued no PATCH and no reset: InsertMedia was its last request.
C24_MarkerAfterWait ==
    /\ [][urlMarker' # urlMarker
            => pc = "write_url" /\ urlMarker' = Some(iso_path)
               /\ Count("write /work/url") = 0]_vars
    /\ [](pc = "write_url"
            => IF Count("POST InsertMedia") = 0
               THEN urlMatched /\ sizeMatched
               ELSE /\ Count("POST InsertMedia") = 1
                    /\ virtual_media_is_inserted(VirtualMediaData,
                                                  Val(url_extract_filename(iso_path))))
    /\ []((Count("write /work/url") > 0 /\ Count("POST InsertMedia") > 0)
            => Pos("POST InsertMedia") < Pos("write /work/url"))
    /\ [](error = "Timeout waiting for VirtualMedia"
            => /\ LastEvent("POST InsertMedia")
               /\ \A e \in {"write /work/url", "PATCH Once Cd", "POST Manager.Reset",
                              "PATCH Disabled"} : Count(e) = 0)

\* the wait timed out and the marker still holds the URL of an earlier call
C24_Witness ==
    /\ error = "Timeout waiting for VirtualMedia" /\ outcome = "raised"
    /\ iso_path = UrlA /\ urlMarker = Some(UrlB)

\* C25: _start_until_success returns only with 'installing' as the state it
\* last observed; it is at the start_cluster call only when the state just
\* observed is 'ready' or 'error'; the call to start_cluster, whether it
\* raised or not, is followed by the next poll; and a poll that observed any
\* other state makes no start_cluster call and is followed by the next poll,
\* one try further, however many tries were made.
C25_StartUntilInstalling ==
    /\ []((ai.op \in {"ensure_cluster_installing", "_start_until_success"}
             /\ ai.outcome = "returned") => ai.cs = "installing")
    /\ [](ai.pc = "start_cluster" => ai.cs \in {"ready", "error"})
    /\ [][ai.pc = "start_cluster"
            => /\ ai'.pc = "_start_until_success" /\ ai'.outcome = "none"
               /\ ai'.calls = ai.calls + 1
               /\ ai'.tries = ai.tries + 1]_vars
    /\ [][ai.pc = "_start_until_success"
            => /\ ai'.calls = ai.calls
               /\ (ai'.outcome = "none" /\ ai'.cs \notin {"ready", "error", "installing"})
                     => ai'.pc = "_start_until_success" /\ ai'.tries = ai.tries + 1
               /\ ai'.pc = "start_cluster" => ai'.cs \in {"ready", "error"}]_vars

\* the call returned after two start_cluster calls, the second of which
\* raised, and one poll in another state
C25_Witness ==
    /\ ai.op = "_start_until_success" /\ ai.outcome = "returned"
    /\ ai.cs = "installing" /\ ai.calls = 2 /\ ai.raised /\ ai.tries = MaxTries

\* C26: ensure_cluster_deleted returns only when the cluster is not there;
\* delete_cluster is called only when the check just made found the cluster,
\* so never for a cluster that is absent; and after a delete_cluster, whether
\* it raised or not, the call goes on to check again.
C26_DeletedOnReturn ==
    /\ []((ai.op = "ensure_cluster_deleted" /\ ai.outcome = "returned") => ~ai.exists)
    /\ []((ai.op = "ensure_cluster_deleted" /\ ai.pc = "delete_cluster") => ai.exists)
    /\ [][(ai.op = "ensure_cluster_deleted" /\ ai'.calls # ai.calls)
            => ai.pc = "delete_cluster" /\ ai.exists /\ ai'.calls = ai.calls + 1]_vars
    /\ [][(ai.op = "ensure_cluster_deleted" /\ ai.pc = "delete_cluster")
            => ai'.pc = "ensure_cluster_deleted" /\ ai'.outcome = "none"]_vars

\* a delete_cluster raised, the cluster is still there and the next
\* delete_cluster is about to be made
C26_Witness ==
    /\ ai.op = "ensure_cluster_deleted" /\ ai.pc = "delete_cluster"
    /\ ai.calls = 1 /\ ai.raised /\ ai.exists

\* C27: download_iso_with_retry calls download_iso at most 25 times; the
\* first call that succeeds is the last one and the function returns at once,
\* with no error logged; when 25 calls have failed the function logs the
\* error and returns as well: once the loop is entered the function ends by
\* return only, with or without the ISO.
C27_DownloadAttempts ==
    ai.op = "download_iso_with_retry" =>
        /\ Retries = 25 /\ ai.calls <= 25
        /\ ai.downloaded
              => /\ ai.pc = "done" /\ ai.outcome = "returned"
                 /\ ai.calls = ai.tries + 1
                 /\ ~ai.errorLogged
        /\ ~ai.downloaded => ai.calls = ai.tries
        /\ (ai.outcome = "returned" /\ ~ai.downloaded) => ai.calls = 25 /\ ai.errorLogged
        /\ ai.errorLogged => ai.calls = 25 /\ ai.outcome = "returned" /\ ~ai.downloaded
        /\ (ai.pc = "done" /\ ai.calls > 0) => ai.outcome = "returned"

\* 25 failed attempts, the error logged, and an ordinary return
C27_Witness ==
    /\ ai.op = "download_iso_with_retry" /\ ai.outcome = "returned"
    /\ ~ai.downloaded /\ ai.errorLogged /\ ai.calls = 25

====
